---- MODULE Spec2Model ----
(***************************************************************************)
(* Model of two subsystems of terramate:                                   *)
(*   - lets.Exprs.Eval, the fixpoint evaluator of let expressions          *)
(*     (package lets);                                                     *)
(*   - stack.Manager.ListChanged and Manager.moduleChanged, the change     *)
(*     detection of stacks (src/stack/manager.go).                         *)
(* Each subsystem has its own specification (SpecLets, SpecChanged); the   *)
(* variables of the other subsystem stay idle.                             *)
(***************************************************************************)
EXTENDS Integers, Sequences, FiniteSets, TLC

(***************************************************************************)
(* Bounds of the model.                                                    *)
(***************************************************************************)
\* total number of variable references in all expressions of one Exprs
MaxRefs == 2
\* values are integers modulo ValMod
ValMod == 3
\* stacks of a project
MaxStacks == 2
\* files of a git diff
MaxChanged == 2
\* stacks, changed files, watch paths, module blocks and unparsable .tf
\* files of a project, in all
MaxItems == 5
\* .tf files of a directory
MaxTfFiles == 2
\* stacks of the project of AddWantedOf
MaxWantStacks == 3
\* entries of all wants and wanted_by lists of a project
MaxWanted == 2
\* stacks handed to AddWantedOf
MaxScope == 2
\* map sub-blocks of a let block
MaxBlocks == 2
\* references in the attributes of a let block handed to Load
MaxLoadRefs == 1

(***************************************************************************)
(* ---------------------------  package lets  ---------------------------- *)
(***************************************************************************)

\* names of let attributes (keys of Exprs)
Names == {"a", "b", "c"}

\* error kind of lets evaluation
ErrEval == "lets eval"

\* namespaces set on a stack evaluation context besides "let"
StackNamespaces == {"global", "terramate"}

\* root names an expression may reference: "let", a namespace that exists
\* ("global") and one that does not ("nope").
Refs ==
    [root : {"let"}, step : {"attr"}, name : Names]
      \cup {[root |-> "let", step |-> "index", name |-> ""]}
      \cup {[root |-> "global", step |-> "attr", name |-> ""]}
      \cup {[root |-> "nope", step |-> "attr", name |-> ""]}

\* the bare identifier `unset`
UnsetExpr == [kind |-> "unset", vars |-> <<>>, fails |-> FALSE]

\* An expression: its variables in source order (expr.Variables()), and
\* whether its evaluation fails by itself (a failing function call, a type
\* error) even when all its variables are bound.
ExprsWithRefs(n) ==
    {[kind |-> "expr", vars |-> v, fails |-> f] :
        v \in [1..n -> Refs], f \in BOOLEAN}

\* the empty map
EmptyMap == [x \in {} |-> 0]

VARIABLES
    letExprs,          \* the receiver of Eval: name -> expression
    ctxLet,            \* namespace "let" of ctx: [has, attrs: name -> value]
    lets,              \* lets Map of Eval: name -> value
    pendingExprs,      \* name -> expression, still to evaluate
    pendingExprsErrs,  \* name -> sequence of errors
    rangeLeft,         \* names the current `range pendingExprs` still visits
    amountEvaluated,   \* bindings of the current pass
    letpc,             \* position in Eval
    evalErr,           \* the error returned: name -> sequence of errors
    passes,            \* history: amountEvaluated of each finished pass
    evaluated,         \* history: names handed to ctx.Eval
    ctxLet0            \* history: ctxLet when Eval was called

letVars == <<letExprs, ctxLet, lets, pendingExprs, pendingExprsErrs,
             rangeLeft, amountEvaluated, letpc, evalErr, passes, evaluated,
             ctxLet0>>

VARIABLES
    stacks,        \* directories that are stacks (m.root.Lookup, IsStack)
    gitDiff,       \* git diff --name-only of base ref and HEAD, in git's order
    baseRef,       \* the commit that m.gitBaseRef resolves to (g.RevParse)
    workTree,      \* the untracked and uncommitted files of the work tree
    watch,         \* stack dir -> its watch list, once the stack is examined
    tfFiles,       \* directory -> its .tf files, once the directory is read
    missing,       \* changed trigger files that os.Stat did not find
    items,         \* items the project may still turn out to have
    changedFiles,  \* changedFiles of ListChanged
    stackSet,      \* stackSet of ListChanged: stack dir -> Entry
    fileIdx,       \* position of the loop over changedFiles
    stacksLeft,    \* stacks the loop over allstacks has not reached
    curStack,      \* the stack whose .tf files are scanned
    topFiles,      \* .tf files of curStack still to scan
    visited,       \* visited map of the running top-level moduleChanged
    callStack,     \* frames of the running moduleChanged calls
    lcpc,          \* position in ListChanged
    report,        \* Report.Stacks returned
    examined,      \* history: sources examined by the top-level moduleChanged
    repo,          \* what git said of the project root, once it is asked
    returned,      \* what List or ListChanged returned
    scanErr        \* the error moduleChanged returned to ListChanged: its
                   \* messages, the outermost first

lcVars == <<stacks, gitDiff, baseRef, workTree, watch, tfFiles, missing, items, changedFiles,
            stackSet, fileIdx, stacksLeft, curStack, topFiles, visited,
            callStack, lcpc, report, examined, repo, returned, scanErr>>

VARIABLES
    wants,           \* stack -> the stacks of its wants list
    wantedBy,        \* stack -> the stacks of its wanted_by list
    scopeStacks,     \* the argument of AddWantedOf
    selectedStacks,  \* selectedStacks of AddWantedOf
    wantVisited,     \* visited of AddWantedOf, lines 420-429
    wantPending,         \* pending of AddWantedOf
    wpc              \* position in AddWantedOf

wantVars == <<wants, wantedBy, scopeStacks, selectedStacks, wantVisited,
              wantPending, wpc>>

\* the variables of AddWantedOf while another function runs
VARIABLES
    letblock,   \* the argument of Load: [attrs: name -> expression,
                \* blocks: the map sub-blocks, each with its label]
    loadErr     \* the kind of the error loadExprs returned

loadVars == <<letblock, loadErr>>

\* the variables of Load while another function runs
LoadIdle == letblock = [attrs |-> EmptyMap, blocks |-> <<>>] /\ loadErr = ""

WantedIdle ==
    /\ wants = EmptyMap /\ wantedBy = EmptyMap /\ scopeStacks = <<>>
    /\ selectedStacks = <<>> /\ wantVisited = {} /\ wantPending = <<>>
    /\ wpc = "idle"

\* no call has returned
NotReturned == [fn |-> "", report |-> FALSE, checks |-> "", err |-> ""]

vars == <<letVars, lcVars, wantVars, loadVars>>

\* the variables of package stack while package lets runs
ChangedIdle ==
    /\ stacks = {} /\ gitDiff = <<>> /\ watch = EmptyMap
    /\ baseRef = "" /\ workTree = <<>>
    /\ tfFiles = EmptyMap /\ missing = {} /\ items = 0
    /\ changedFiles = <<>> /\ stackSet = EmptyMap /\ fileIdx = 0
    /\ stacksLeft = {} /\ curStack = <<>> /\ topFiles = <<>>
    /\ visited = {} /\ callStack = <<>> /\ lcpc = "idle"
    /\ report = <<>> /\ examined = <<>>
    /\ repo = "" /\ returned = NotReturned /\ scanErr = <<>>

\* the variables of package lets while package stack runs
LetsIdle ==
    /\ letExprs = EmptyMap /\ ctxLet = [has |-> FALSE, attrs |-> EmptyMap]
    /\ lets = EmptyMap /\ pendingExprs = EmptyMap
    /\ pendingExprsErrs = EmptyMap /\ rangeLeft = {}
    /\ amountEvaluated = 0 /\ letpc = "idle" /\ evalErr = EmptyMap
    /\ passes = <<>> /\ evaluated = {}
    /\ ctxLet0 = [has |-> FALSE, attrs |-> EmptyMap]

\* restriction of a map to a set of keys
Restrict(f, S) == [x \in S |-> f[x]]

\* m with key k set to v
MapSet(m, k, v) == [x \in DOMAIN m \cup {k} |-> IF x = k THEN v ELSE m[x]]

\* m without key k
MapDelete(m, k) == Restrict(m, DOMAIN m \ {k})

\* removeUnset: deletes the entries that are the bare identifier unset
removeUnsetKeepAll(exprs) == exprs

removeUnset(exprs) ==
    Restrict(exprs, {n \in DOMAIN exprs : exprs[n].kind # "unset"})

\* copyexprs into an empty destination
copyexprs(src) == [k \in DOMAIN src |-> src[k]]

\* ctx.HasNamespace, once the let namespace is ensured (lines 83-85)
HasNamespace(root) == root = "let" \/ root \in StackNamespaces

\* the error appended at lines 106-110; `at` is the source range of the
\* reference, given as its position among the variables
UnknownNamespaceErr(root, i) ==
    [kind |-> ErrEval, msg |-> "unknown variable namespace", arg |-> root,
     at |-> i]

\* the error appended at line 137
LetEvalErr(name) ==
    [kind |-> ErrEval, msg |-> "let.", arg |-> name, at |-> 0]

\* the error made at line 165
UndefinedLetErr(name) ==
    [kind |-> ErrEval, msg |-> "undefined let", arg |-> name, at |-> 0]

\* the loop over the variables without the check of line 121: a reference
\* to a pending let does not postpone the expression
RECURSIVE CheckVarsFromNoPending(_, _, _, _)
CheckVarsFromNoPending(exprvars, i, pending, errs) ==
    IF i > Len(exprvars)
    THEN [outcome |-> "checked", errs |-> errs]
    ELSE LET namespace == exprvars[i] IN
         IF ~HasNamespace(namespace.root)
         THEN CheckVarsFromNoPending(exprvars, i + 1, pending,
                  Append(errs, UnknownNamespaceErr(namespace.root, i)))
         ELSE IF namespace.root # "let"
         THEN CheckVarsFromNoPending(exprvars, i + 1, pending, errs)
         ELSE IF namespace.step = "attr"
         THEN CheckVarsFromNoPending(exprvars, i + 1, pending, errs)
         ELSE [outcome |-> "panic", errs |-> errs]

\* the loop over the variables with the errors dropped when the expression
\* is postponed
RECURSIVE CheckVarsFromDropErrs(_, _, _, _)
CheckVarsFromDropErrs(exprvars, i, pending, errs) ==
    IF i > Len(exprvars)
    THEN [outcome |-> "checked", errs |-> errs]
    ELSE LET namespace == exprvars[i] IN
         IF ~HasNamespace(namespace.root)
         THEN CheckVarsFromDropErrs(exprvars, i + 1, pending,
                  Append(errs, UnknownNamespaceErr(namespace.root, i)))
         ELSE IF namespace.root # "let"
         THEN CheckVarsFromDropErrs(exprvars, i + 1, pending, errs)
         ELSE IF namespace.step = "attr"
         THEN IF namespace.name \in pending
              THEN [outcome |-> "skip", errs |-> <<>>]
              ELSE CheckVarsFromDropErrs(exprvars, i + 1, pending, errs)
         ELSE [outcome |-> "panic", errs |-> errs]

\* the loop over the variables with the traversal of every let reference
\* looked at before any reference is checked against the pending entries
RECURSIVE CheckVarsFromAnyIndex(_, _, _, _)
CheckVarsFromAnyIndex(exprvars, i, pending, errs) ==
    IF i > Len(exprvars)
    THEN [outcome |-> "checked", errs |-> errs]
    ELSE LET namespace == exprvars[i] IN
         IF \E j \in i..Len(exprvars) :
               exprvars[j].root = "let" /\ exprvars[j].step # "attr"
         THEN [outcome |-> "panic", errs |-> errs]
         ELSE IF ~HasNamespace(namespace.root)
         THEN CheckVarsFromAnyIndex(exprvars, i + 1, pending,
                  Append(errs, UnknownNamespaceErr(namespace.root, i)))
         ELSE IF namespace.root # "let"
         THEN CheckVarsFromAnyIndex(exprvars, i + 1, pending, errs)
         ELSE IF namespace.name \in pending
         THEN [outcome |-> "skip", errs |-> errs]
         ELSE CheckVarsFromAnyIndex(exprvars, i + 1, pending, errs)

\* The loop over the variables of one expression (lines 104-127), from
\* variable i on, with the errors appended so far.
\*   "skip":    continue pendingExpression (line 122)
\*   "panic":   line 125
\*   "checked": the loop ran to its end
RECURSIVE CheckVarsFrom(_, _, _, _)
CheckVarsFrom(exprvars, i, pending, errs) ==
    IF i > Len(exprvars)
    THEN [outcome |-> "checked", errs |-> errs]
    ELSE LET namespace == exprvars[i] IN
         IF ~HasNamespace(namespace.root)
         THEN CheckVarsFrom(exprvars, i + 1, pending,
                  Append(errs, UnknownNamespaceErr(namespace.root, i)))
         ELSE IF namespace.root # "let"
         THEN CheckVarsFrom(exprvars, i + 1, pending, errs)
         ELSE IF namespace.step = "attr"
         THEN IF namespace.name \in pending
              THEN [outcome |-> "skip", errs |-> errs]
              ELSE CheckVarsFrom(exprvars, i + 1, pending, errs)
         ELSE [outcome |-> "panic", errs |-> errs]

CheckVars(expr, pending) == CheckVarsFrom(expr.vars, 1, pending, <<>>)

\* names of the let attributes an expression reads
LetDeps(expr) ==
    {expr.vars[i].name :
        i \in {j \in 1..Len(expr.vars) :
                  expr.vars[j].root = "let" /\ expr.vars[j].step = "attr"}}

\* ctx.Eval succeeds when the expression does not fail by itself and every
\* let attribute it reads is in the let namespace.
CtxEvalOk(expr, letns) ==
    ~expr.fails /\ LetDeps(expr) \subseteq DOMAIN letns

RECURSIVE SumVars(_, _, _)
SumVars(exprvars, i, letns) ==
    IF i > Len(exprvars) THEN 0
    ELSE (IF exprvars[i].root = "let" /\ exprvars[i].step = "attr"
          THEN letns[exprvars[i].name] ELSE 0)
         + SumVars(exprvars, i + 1, letns)

\* the value of ctx.Eval: one plus the values of the lets it reads
CtxEvalValue(expr, letns) == (1 + SumVars(expr.vars, 1, letns)) % ValMod

\* lets.Attributes(); AttributesNone gives no attribute
AttributesNone(m) == EmptyMap

Attributes(m) == [k \in DOMAIN m |-> m[k]]

(***************************************************************************)
(* Initial states of Eval: every Exprs over Names with at most MaxRefs     *)
(* references in all, and a context without let namespace, with an empty   *)
(* one or with one that holds a value for "a".                             *)
(***************************************************************************)
RECURSIVE ExprsOver(_, _)
ExprsOver(names, budget) ==
    IF names = {} THEN {EmptyMap}
    ELSE LET n == CHOOSE x \in names : TRUE
             rest == names \ {n}
         IN  ExprsOver(rest, budget)
               \cup {MapSet(e, n, UnsetExpr) : e \in ExprsOver(rest, budget)}
               \cup UNION {
                      {MapSet(e, n, x) :
                          e \in ExprsOver(rest, budget - k),
                          x \in ExprsWithRefs(k)} : k \in 0..budget}

\* a namespace of the context: whether it exists, and its attributes
Namespace(attrs) == [has |-> TRUE, attrs |-> attrs]

NoNamespace == [has |-> FALSE, attrs |-> EmptyMap]

CtxLets == {NoNamespace, Namespace(EmptyMap), Namespace([x \in {"a"} |-> 0])}

LetsInit ==
    /\ ChangedIdle
    /\ WantedIdle
    /\ LoadIdle
    /\ letExprs \in ExprsOver(Names, MaxRefs)
    /\ ctxLet \in CtxLets
    /\ ctxLet0 = ctxLet
    /\ lets = EmptyMap
    /\ pendingExprs = EmptyMap
    /\ pendingExprsErrs = EmptyMap
    /\ rangeLeft = {}
    /\ amountEvaluated = 0
    /\ letpc = "call"
    /\ evalErr = EmptyMap
    /\ passes = <<>>
    /\ evaluated = {}

\* lines 76-85: the private copy without the unset entries, and the let
\* namespace of the context
EvalBegin ==
    /\ letpc = "call"
    /\ UNCHANGED <<lcVars, wantVars, loadVars>>
    /\ pendingExprs' = removeUnset(copyexprs(letExprs))
    /\ ctxLet' = IF ~ctxLet.has THEN Namespace(EmptyMap) ELSE ctxLet
    /\ letpc' = "loop"
    /\ UNCHANGED <<letExprs, lets, pendingExprsErrs, rangeLeft,
                   amountEvaluated, evalErr, passes, evaluated, ctxLet0>>

\* line 87-93: the loop condition and the start of a pass
EvalLoop ==
    /\ letpc = "loop"
    /\ UNCHANGED <<lcVars, wantVars, loadVars>>
    /\ IF DOMAIN pendingExprs # {}
       THEN /\ amountEvaluated' = 0
            /\ rangeLeft' = DOMAIN pendingExprs
            /\ letpc' = "range"
       ELSE /\ letpc' = "report"
            /\ UNCHANGED <<amountEvaluated, rangeLeft>>
    /\ UNCHANGED <<letExprs, ctxLet, lets, pendingExprs, pendingExprsErrs,
                   evalErr, passes, evaluated, ctxLet0>>

\* lines 93-131, an entry that is not evaluated: a reference to a pending
\* let (line 122) or recorded errors (line 130)
EvalSkip(name) ==
    /\ letpc = "range"
    /\ UNCHANGED <<lcVars, wantVars, loadVars>>
    /\ name \in rangeLeft
    /\ LET r == CheckVars(pendingExprs[name], DOMAIN pendingExprs) IN
         /\ r.outcome = "skip" \/ (r.outcome = "checked" /\ r.errs # <<>>)
         /\ pendingExprsErrs' = MapSet(pendingExprsErrs, name, r.errs)
    /\ rangeLeft' = rangeLeft \ {name}
    /\ UNCHANGED <<letExprs, ctxLet, lets, pendingExprs, amountEvaluated,
                   letpc, evalErr, passes, evaluated, ctxLet0>>

\* line 125
EvalPanic(name) ==
    /\ letpc = "range"
    /\ UNCHANGED <<lcVars, wantVars, loadVars>>
    /\ name \in rangeLeft
    /\ LET r == CheckVars(pendingExprs[name], DOMAIN pendingExprs) IN
         /\ r.outcome = "panic"
         /\ pendingExprsErrs' = MapSet(pendingExprsErrs, name, r.errs)
    /\ letpc' = "panic"
    /\ UNCHANGED <<letExprs, ctxLet, lets, pendingExprs, rangeLeft,
                   amountEvaluated, evalErr, passes, evaluated, ctxLet0>>

\* lines 135-139: ctx.Eval fails
EvalFail(name) ==
    /\ letpc = "range"
    /\ UNCHANGED <<lcVars, wantVars, loadVars>>
    /\ name \in rangeLeft
    /\ LET r == CheckVars(pendingExprs[name], DOMAIN pendingExprs) IN
         /\ r.outcome = "checked" /\ r.errs = <<>>
    /\ ~CtxEvalOk(pendingExprs[name], ctxLet.attrs)
    /\ pendingExprsErrs' =
          MapSet(pendingExprsErrs, name, <<LetEvalErr(name)>>)
    /\ evaluated' = evaluated \cup {name}
    /\ rangeLeft' = rangeLeft \ {name}
    /\ UNCHANGED <<letExprs, ctxLet, lets, pendingExprs, amountEvaluated,
                   letpc, evalErr, passes, ctxLet0>>

\* lines 135-153: ctx.Eval succeeds, the binding is recorded and the let
\* namespace is set to the attributes of lets
EvalBind(name) ==
    /\ letpc = "range"
    /\ UNCHANGED <<lcVars, wantVars, loadVars>>
    /\ name \in rangeLeft
    /\ LET r == CheckVars(pendingExprs[name], DOMAIN pendingExprs) IN
         /\ r.outcome = "checked" /\ r.errs = <<>>
    /\ CtxEvalOk(pendingExprs[name], ctxLet.attrs)
    /\ lets' = MapSet(lets, name, CtxEvalValue(pendingExprs[name], ctxLet.attrs))
    /\ amountEvaluated' = amountEvaluated + 1
    /\ pendingExprs' = MapDelete(pendingExprs, name)
    /\ pendingExprsErrs' = MapDelete(pendingExprsErrs, name)
    /\ ctxLet' = Namespace(Attributes(lets'))
    /\ evaluated' = evaluated \cup {name}
    /\ rangeLeft' = rangeLeft \ {name}
    /\ UNCHANGED <<letExprs, letpc, evalErr, passes, ctxLet0>>

\* a loop that stops after its first pass, whatever it evaluated
EvalEndPassAlwaysBreak ==
    /\ letpc = "range"
    /\ UNCHANGED <<lcVars, wantVars, loadVars>>
    /\ rangeLeft = {}
    /\ passes' = Append(passes, amountEvaluated)
    /\ letpc' = "report"
    /\ UNCHANGED <<letExprs, ctxLet, lets, pendingExprs, pendingExprsErrs,
                   rangeLeft, amountEvaluated, evalErr, evaluated, ctxLet0>>

\* a loop without the break of line 156
EvalEndPassNeverBreak ==
    /\ letpc = "range"
    /\ UNCHANGED <<lcVars, wantVars, loadVars>>
    /\ rangeLeft = {}
    /\ Len(passes) < 8
    /\ passes' = Append(passes, amountEvaluated)
    /\ letpc' = "loop"
    /\ UNCHANGED <<letExprs, ctxLet, lets, pendingExprs, pendingExprsErrs,
                   rangeLeft, amountEvaluated, evalErr, evaluated, ctxLet0>>

\* lines 154-159: the end of a pass
EvalEndPass ==
    /\ letpc = "range"
    /\ UNCHANGED <<lcVars, wantVars, loadVars>>
    /\ rangeLeft = {}
    /\ passes' = Append(passes, amountEvaluated)
    /\ letpc' = IF amountEvaluated = 0 THEN "report" ELSE "loop"
    /\ UNCHANGED <<letExprs, ctxLet, lets, pendingExprs, pendingExprsErrs,
                   rangeLeft, amountEvaluated, evalErr, evaluated, ctxLet0>>

\* lines 161-170: the errors of the entries still pending, each wrapped
\* into one error of the composite; EvalReportRecorded leaves out the error
\* made at line 165
EvalReportRecorded ==
    /\ letpc = "report"
    /\ UNCHANGED <<lcVars, wantVars, loadVars>>
    /\ evalErr' = [name \in DOMAIN pendingExprs |-> pendingExprsErrs[name]]
    /\ letpc' = "done"
    /\ UNCHANGED <<letExprs, ctxLet, lets, pendingExprs, pendingExprsErrs,
                   rangeLeft, amountEvaluated, passes, evaluated, ctxLet0>>

EvalReport ==
    /\ letpc = "report"
    /\ UNCHANGED <<lcVars, wantVars, loadVars>>
    /\ evalErr' =
         [name \in DOMAIN pendingExprs |->
            IF pendingExprsErrs[name] = <<>>
            THEN <<UndefinedLetErr(name)>>
            ELSE pendingExprsErrs[name]]
    /\ letpc' = "done"
    /\ UNCHANGED <<letExprs, ctxLet, lets, pendingExprs, pendingExprsErrs,
                   rangeLeft, amountEvaluated, passes, evaluated, ctxLet0>>

LetsNext ==
    \/ EvalBegin
    \/ EvalLoop
    \/ \E name \in Names : EvalSkip(name)
    \/ \E name \in Names : EvalPanic(name)
    \/ \E name \in Names : EvalFail(name)
    \/ \E name \in Names : EvalBind(name)
    \/ EvalEndPass
    \/ EvalReport

SpecLets == LetsInit /\ [][LetsNext]_vars

(***************************************************************************)
(* Properties of Exprs.Eval                                                *)
(***************************************************************************)

\* the entries of the receiver that are not `unset`
NonUnset == {n \in DOMAIN letExprs : letExprs[n].kind # "unset"}

\* the entries of the receiver that are `unset`
UnsetNames == DOMAIN letExprs \ NonUnset

\* all variables of all expressions of the receiver
AllVars(n) == {letExprs[n].vars[i] : i \in 1..Len(letExprs[n].vars)}

\* names reachable from the names of S by at most k let references
RECURSIVE DepsWithin(_, _)
DepsWithin(S, k) ==
    IF k = 0 THEN S
    ELSE LET T == S \cup UNION {LetDeps(letExprs[n]) :
                                   n \in S \cap DOMAIN letExprs}
         IN  DepsWithin(T, k - 1)

\* names reachable from n by one or more let references
DepsOf(n) == DepsWithin(LetDeps(letExprs[n]), Cardinality(Names))

\* the names on a cycle of let references
CycleMembers == {n \in DOMAIN letExprs : n \in DepsOf(n)}

\* Eval has returned
EvalReturned == letpc = "done"

\* Eval has returned or panicked
EvalEnded == letpc \in {"done", "panic"}

\* every expression reads only namespaces that exist, reads let only by
\* attribute, and evaluates without error once the lets it reads are bound
EvaluableExprs ==
    \A n \in DOMAIN letExprs :
        /\ ~letExprs[n].fails
        /\ \A v \in AllVars(n) : HasNamespace(v.root) /\ v.step = "attr"

\* every binding made is the value of its expression under the final lets
BoundValuesRight ==
    \A n \in DOMAIN lets :
        /\ LetDeps(letExprs[n]) \subseteq DOMAIN lets
        /\ lets[n] = CtxEvalValue(letExprs[n], lets)

\* C1 as stated: when every let reference names an entry of the Exprs, the
\* reference graph is acyclic, every namespace exists and every expression
\* evaluates once its lets are bound, Eval returns no error and the let
\* namespace holds exactly the entries that are not unset. Stated here for
\* the contexts whose let namespace holds nothing before the call.
C1_AsStated ==
    ( /\ EvalEnded
      /\ ctxLet0.attrs = EmptyMap
      /\ EvaluableExprs
      /\ CycleMembers = {}
      /\ \A n \in DOMAIN letExprs : LetDeps(letExprs[n]) \subseteq DOMAIN letExprs )
    => /\ EvalReturned
       /\ evalErr = EmptyMap
       /\ DOMAIN ctxLet.attrs = NonUnset

\* C1, amended: when every let reference names an entry of the Exprs that is
\* not unset, the reference graph is acyclic, every namespace exists and
\* every expression evaluates once its lets are bound, then in whatever
\* order the entries are visited Eval returns no error and has bound every
\* entry that is not unset, each to the value of its expression; the let
\* namespace holds exactly these names, or, when no entry is left after the
\* unset ones are dropped, what it held before the call.
C1_ForwardRefsResolved ==
    ( /\ EvalEnded
      /\ EvaluableExprs
      /\ CycleMembers = {}
      /\ \A n \in DOMAIN letExprs : LetDeps(letExprs[n]) \subseteq NonUnset )
    => /\ EvalReturned
       /\ evalErr = EmptyMap
       /\ DOMAIN lets = NonUnset
       /\ BoundValuesRight
       /\ ctxLet.has
       /\ ctxLet.attrs = IF NonUnset # {} THEN lets ELSE ctxLet0.attrs

\* C1 witness: a = let.b was visited before b, skipped, and bound in a
\* second pass; no error.
C1_Witness ==
    /\ EvalReturned
    /\ EvaluableExprs
    /\ CycleMembers = {}
    /\ \A n \in DOMAIN letExprs : LetDeps(letExprs[n]) \subseteq NonUnset
    /\ \E n \in NonUnset : LetDeps(letExprs[n]) # {}
    /\ Len(passes) = 2
    /\ evalErr = EmptyMap
    /\ DOMAIN ctxLet.attrs = NonUnset

\* C2: an entry that is the bare identifier unset is never in the evaluated
\* lets, is never handed to ctx.Eval and never has an error, neither while
\* Eval runs nor in the error it returns.
C2_UnsetDropped ==
    \A k \in UnsetNames :
        /\ k \notin DOMAIN lets
        /\ k \notin evaluated
        /\ k \notin DOMAIN pendingExprs
        /\ k \notin DOMAIN pendingExprsErrs
        /\ k \notin DOMAIN evalErr

\* C2 witness: Eval returned, an entry was unset and another was bound.
C2_Witness ==
    /\ EvalReturned
    /\ UnsetNames # {}
    /\ DOMAIN lets # {}
    /\ \E n \in DOMAIN evalErr : TRUE

\* C3: when Eval returns, every name on a cycle of let references has errors
\* in the composite error, all of kind `lets eval`; and at no point of Eval
\* is such a name evaluated, bound in lets or published in the let
\* namespace (the namespace holds it only if the caller put it there and
\* Eval has published nothing).
C3_CycleReported ==
    \A n \in CycleMembers :
        /\ EvalReturned =>
              /\ n \in DOMAIN evalErr
              /\ evalErr[n] # <<>>
              /\ \A i \in 1..Len(evalErr[n]) : evalErr[n][i].kind = ErrEval
        /\ n \notin DOMAIN lets
        /\ n \notin evaluated
        /\ n \in DOMAIN ctxLet.attrs =>
              n \in DOMAIN ctxLet0.attrs /\ ctxLet.attrs = ctxLet0.attrs

\* C3 witness: Eval returned on an Exprs with a cycle of two names, after
\* binding a third entry.
C3_Witness ==
    /\ EvalReturned
    /\ Cardinality(CycleMembers) = 2
    /\ \E n \in CycleMembers : n \notin LetDeps(letExprs[n])
    /\ DOMAIN lets # {}

\* the entries with a reference, at position i, to a namespace that does
\* not exist
UnknownNamespaceRefs ==
    {<<n, i>> \in NonUnset \X (1..MaxRefs) :
        /\ i <= Len(letExprs[n].vars)
        /\ letExprs[n].vars[i].root \notin {"let"} \cup StackNamespaces}

\* the composite error holds, for entry n, the unknown-namespace error of
\* the reference at position i
ReportsUnknownNamespace(n, i) ==
    /\ n \in DOMAIN evalErr
    /\ \E k \in 1..Len(evalErr[n]) :
          evalErr[n][k] =
            [kind |-> "lets eval", msg |-> "unknown variable namespace",
             arg |-> letExprs[n].vars[i].root, at |-> i]

\* C4 as stated: when Eval returns, every reference to a namespace that does
\* not exist is in the composite error, as an unknown-namespace error naming
\* the namespace at the range of the reference, also when the expression
\* references a let that stays pending, before or after it.
C4_AsStated ==
    EvalReturned =>
        \A r \in UnknownNamespaceRefs : ReportsUnknownNamespace(r[1], r[2])

\* a let the expression of n reads, by attribute, before position i, and
\* that is still pending
PendingLetBefore(n, i) ==
    \E j \in 1..(i - 1) :
        /\ letExprs[n].vars[j].root = "let"
        /\ letExprs[n].vars[j].step = "attr"
        /\ letExprs[n].vars[j].name \in DOMAIN pendingExprs

\* C4, amended: when Eval returns, a reference to a namespace that does not
\* exist is in the composite error, as an unknown-namespace error naming the
\* namespace at the range of the reference, unless the same expression
\* references, before it, a let that stays pending; then the scan of the
\* expression stops before the reference and the error is not recorded. The
\* entry is never bound and is in the composite error in both cases.
C4_UnknownNamespaceReported ==
    EvalReturned =>
        \A r \in UnknownNamespaceRefs :
            /\ r[1] \in DOMAIN evalErr
            /\ r[1] \notin DOMAIN lets
            /\ ReportsUnknownNamespace(r[1], r[2])
                  <=> ~PendingLetBefore(r[1], r[2])

\* C4 witness: the unknown namespace is reported for an expression that
\* also references, after it, a let that stays pending.
C4_Witness ==
    /\ EvalReturned
    /\ \E r \in UnknownNamespaceRefs :
          /\ ReportsUnknownNamespace(r[1], r[2])
          /\ Len(letExprs[r[1]].vars) > r[2]
          /\ letExprs[r[1]].vars[r[2] + 1].root = "let"
          /\ letExprs[r[1]].vars[r[2] + 1].step = "attr"
          /\ letExprs[r[1]].vars[r[2] + 1].name \in DOMAIN pendingExprs

\* C5: the loop runs at most n+1 passes for n entries that are not unset;
\* every pass but the last evaluates at least one entry, and a pass that
\* evaluates nothing is the last one; Eval is never stuck before it ends.
C5_EvalTerminates ==
    /\ Len(passes) <= Cardinality(NonUnset) + 1
    /\ \A i \in 1..Len(passes) :
          passes[i] = 0 => i = Len(passes) /\ letpc \in {"report", "done"}
    /\ letpc = "range" => Cardinality(rangeLeft) <= Cardinality(NonUnset)
    /\ ~EvalEnded => ENABLED LetsNext

\* C5 witness: Eval returned after three passes, the last of which
\* evaluated nothing.
C5_Witness ==
    /\ EvalReturned
    /\ Len(passes) = 3
    /\ passes[3] = 0

(***************************************************************************)
(* ---------------------------  package stack  --------------------------- *)
(***************************************************************************)

(***************************************************************************)
(* Paths.  A directory is the sequence of its segments below the project   *)
(* root (<<>>); segment 0 is a name that begins with ".".  A file is a     *)
(* directory and a name; the name "trigger" stands for the trigger file    *)
(* .terramate/trigger/<file> below the directory.  abs tells a project     *)
(* path ("/a/x") from a path relative to the root ("a/x").                 *)
(***************************************************************************)

\* the directories that exist below the project root
Dirs == {<<>>, <<1>>, <<2>>, <<1, 1>>, <<1, 2>>, <<2, 1>>, <<2, 2>>}

\* the directories that may be stacks
StackDirs == {<<>>, <<1>>, <<1, 1>>, <<2>>}

\* what g.ListUntracked and g.ListUncommitted may list: nothing, a file of
\* the directory 1, a trigger file for it
WorkTrees ==
    {<<>>,
     <<[abs |-> FALSE, dir |-> <<1>>, name |-> "x"]>>,
     <<[abs |-> FALSE, dir |-> <<1>>, name |-> "trigger"]>>}

\* the paths git may list as changed
DiffPaths ==
    {[abs |-> FALSE, dir |-> d, name |-> "x"] :
        d \in {<<1>>, <<1, 2>>, <<2, 2>>, <<0>>, <<1, 0>>}}
      \cup {[abs |-> FALSE, dir |-> d, name |-> "trigger"] :
              d \in {<<>>, <<1>>, <<2>>}}

\* the project paths a stack may watch
WatchPaths ==
    {[abs |-> TRUE, dir |-> d, name |-> "x"] : d \in {<<2, 2>>, <<0>>}}

\* the module sources of the .tf files
Sources == {"../2", "../../2/1", "git::example.com/mod"}

\* the sources that are paths of the local file system
LocalSources == {"../2", "../../2/1"}

\* tf.Module.IsLocal; IsLocalAll takes every source for a local one
IsLocalAll(source) == TRUE

IsLocal(source) == source \in LocalSources

\* the number of leading ".." of a local source
SourceUp(source) == IF source = "../2" THEN 1 ELSE 2

\* the path of a local source after its leading ".."
SourceDown(source) == IF source = "../2" THEN <<2>> ELSE <<2, 1>>

\* no file
NoFile == [abs |-> FALSE, dir |-> <<>>, name |-> ""]

\* project.PrjAbsPath of a path relative to the root
PrjAbsPath(f) == [f EXCEPT !.abs = TRUE]

\* watchFile.String()[1:]
StripSlash(w) == [w EXCEPT !.abs = FALSE]

\* trigger.StackPath: the stack a trigger file is for, and whether the path
\* is a trigger file at all
TriggerStackPath(f) == [dir |-> f.dir, isTrigger |-> f.name = "trigger"]

\* Path.Dir of a directory that is not the root
ParentDir(d) == SubSeq(d, 1, Len(d) - 1)

\* d is p or lies below p
IsBelow(d, p) == Len(p) <= Len(d) /\ SubSeq(d, 1, Len(p)) = p

\* filepath.Join(basedir, source) of a local source; a path that leaves
\* the project names no directory
JoinSource(basedir, source) ==
    IF SourceUp(source) > Len(basedir)
    THEN [inProject |-> FALSE, dir |-> <<>>]
    ELSE [inProject |-> TRUE,
          dir |-> SubSeq(basedir, 1, Len(basedir) - SourceUp(source))
                    \o SourceDown(source)]

\* os.Stat(modPath) succeeds and st.IsDir()
IsDir(p) == p.inProject /\ p.dir \in Dirs

\* a .tf file: ParseModules fails on it, or gives its module sources
ErrFile == [err |-> TRUE, mods |-> <<>>]

TfFile(mods) == [err |-> FALSE, mods |-> mods]

\* the items a .tf file counts for
FileItems(file) == IF file.err THEN 1 ELSE Len(file.mods)

RECURSIVE TfItems(_)
TfItems(files) ==
    IF files = <<>> THEN 0 ELSE FileItems(Head(files)) + TfItems(Tail(files))

\* the .tf files of k items
TfFilesOf(k) ==
    (IF k = 1 THEN {ErrFile} ELSE {})
      \cup {TfFile(m) : m \in [1..k -> Sources]}

\* the lists of at most n .tf files that count for at most k items
RECURSIVE TfLists(_, _)
TfLists(n, k) ==
    IF n = 0 \/ k = 0 THEN {<<>>}
    ELSE {<<>>} \cup UNION {
            {<<f>> \o rest : f \in TfFilesOf(j), rest \in TfLists(n - 1, k - j)}
              : j \in 1..k}

\* the lists of n different elements of S
RECURSIVE ListsOf(_, _)
ListsOf(S, n) ==
    IF n = 0 THEN {<<>>}
    ELSE UNION {{<<x>> \o l : l \in ListsOf(S \ {x}, n - 1)} : x \in S}

\* the watch lists of at most k paths, none twice
WatchLists(k) == UNION {ListsOf(WatchPaths, n) : n \in 0..k}

\* Entry, with the IsChanged flag of its stack; EntryUnmarked leaves the flag
\* as config.NewStackFromHCL and List make it
EntryUnmarked(dir, reason, isChanged) ==
    [dir |-> dir, reason |-> reason, isChanged |-> FALSE]

Entry(dir, reason, isChanged) ==
    [dir |-> dir, reason |-> reason, isChanged |-> isChanged]

ReasonChanges ==
    [kind |-> "stack has unmerged changes", file |-> NoFile, src |-> "",
     why |-> <<>>]

ReasonTrigger(projpath) ==
    [kind |-> "stack has been triggered by", file |-> projpath, src |-> "",
     why |-> <<>>]

ReasonWatch(watchFile) ==
    [kind |-> "stack changed because watched file changed",
     file |-> watchFile, src |-> "", why |-> <<>>]

ReasonModule(source, why) ==
    [kind |-> "stack changed because module changed", file |-> NoFile,
     src |-> source, why |-> why]

\* the names of the diff below dir
ChangedBelow(diff, dir) == SelectSeq(diff, LAMBDA f : IsBelow(f.dir, dir))

\* the commits of the repository; headRef is what g.RevParse("HEAD") gives
Commits == {"c1", "c2"}

headRef == "c2"

\* listChangedFiles with neither the commit of HEAD nor the test of line
\* 636: the names that differ between the base ref and the work tree
listChangedFilesWorkTree(dir) == ChangedBelow(gitDiff \o workTree, dir)

\* lines 594-641: listChangedFiles(dir), nothing when the base ref is the
\* commit of HEAD, and else the names that g.DiffNames gives below dir
listChangedFiles(dir) ==
    IF baseRef = headRef THEN <<>> ELSE ChangedBelow(gitDiff, dir)

\* lines 210, 261: _, ok := stackSet[dir]; InStackSetNever finds no entry
InStackSetNever(dir) == FALSE

InStackSet(dir) == dir \in DOMAIN stackSet

\* strings.HasPrefix(path, "."), on a path relative to the root: the
\* trigger directory of the root and the "." names below the root;
\* NoDotPrefix finds no such prefix
NoDotPrefix(f) == FALSE

\* HasDotSegment looks for a "." at the start of any segment
HasDotSegment(f) ==
    IF f.dir = <<>> THEN f.name = "trigger"
    ELSE \E i \in 1..Len(f.dir) : f.dir[i] = 0

HasDotPrefix(f) ==
    IF f.dir = <<>> THEN f.name = "trigger" ELSE f.dir[1] = 0

\* lines 219-236: the stack of cfgpath, or of its closest parent that is one
RECURSIVE LookupParentStack(_)
LookupParentStack(checkdir) ==
    IF checkdir = <<>>
    THEN [found |-> FALSE, dir |-> <<>>]
    ELSE IF ParentDir(checkdir) \in stacks
    THEN [found |-> TRUE, dir |-> ParentDir(checkdir)]
    ELSE LookupParentStack(ParentDir(checkdir))

\* LookupStackOnly leaves out the walk over the parents
LookupStackOnly(cfgpath) == [found |-> cfgpath \in stacks, dir |-> cfgpath]

LookupStack(cfgpath) ==
    IF cfgpath \in stacks
    THEN [found |-> TRUE, dir |-> cfgpath]
    ELSE LookupParentStack(cfgpath)

\* hasChangedWatchedFiles: the first watch path, in watch order, that is
\* among the changed files; hasChangedWatchedFilesLast gives the last one
RECURSIVE hasChangedWatchedFilesLast(_, _)
hasChangedWatchedFilesLast(stackWatch, files) ==
    IF stackWatch = <<>>
    THEN [ok |-> FALSE, watchFile |-> NoFile]
    ELSE IF hasChangedWatchedFilesLast(Tail(stackWatch), files).ok
    THEN hasChangedWatchedFilesLast(Tail(stackWatch), files)
    ELSE IF \E i \in 1..Len(files) : files[i] = StripSlash(Head(stackWatch))
    THEN [ok |-> TRUE, watchFile |-> Head(stackWatch)]
    ELSE [ok |-> FALSE, watchFile |-> NoFile]

RECURSIVE hasChangedWatchedFiles(_, _)
hasChangedWatchedFiles(stackWatch, files) ==
    IF stackWatch = <<>>
    THEN [ok |-> FALSE, watchFile |-> NoFile]
    ELSE IF \E i \in 1..Len(files) : files[i] = StripSlash(Head(stackWatch))
    THEN [ok |-> TRUE, watchFile |-> Head(stackWatch)]
    ELSE hasChangedWatchedFiles(Tail(stackWatch), files)

\* project.Path.String, as the list of its characters' codes: "/" is 47,
\* "." is 46 and the name of segment n is the digit n
RECURSIVE DirString(_)
DirString(d) ==
    IF d = <<>> THEN <<47>>
    ELSE IF Len(d) = 1 THEN <<47, IF d[1] = 0 THEN 46 ELSE 48 + d[1]>>
    ELSE DirString(ParentDir(d)) \o DirString(<<d[Len(d)]>>)

\* the order < of Go strings
RECURSIVE StringLess(_, _)
StringLess(p, q) ==
    IF p = <<>> THEN q # <<>>
    ELSE IF q = <<>> THEN FALSE
    ELSE IF Head(p) # Head(q) THEN Head(p) < Head(q)
    ELSE StringLess(Tail(p), Tail(q))

\* EntrySlice.Less; LessReversed compares with > in place of <
LessReversed(x, y) == StringLess(DirString(y.dir), DirString(x.dir))

Less(x, y) == StringLess(DirString(x.dir), DirString(y.dir))

\* sort.Sort(EntrySlice(changedStacks)), as an insertion sort
RECURSIVE InsertEntry(_, _)
InsertEntry(sorted, e) ==
    IF sorted = <<>> THEN <<e>>
    ELSE IF Less(e, Head(sorted)) THEN <<e>> \o sorted
    ELSE <<Head(sorted)>> \o InsertEntry(Tail(sorted), e)

RECURSIVE SortEntries(_)
SortEntries(entries) ==
    IF entries = <<>> THEN <<>>
    ELSE InsertEntry(SortEntries(Tail(entries)), Head(entries))

(***************************************************************************)
(* Initial states of ListChanged: at most MaxStacks stacks and a diff of   *)
(* at most MaxChanged paths, in any order.  The watch lists and the .tf    *)
(* files are drawn when ListChanged first reads them.                      *)
(***************************************************************************)
ChangedInit ==
    /\ LetsIdle
    /\ WantedIdle
    /\ LoadIdle
    /\ stacks \in {S \in SUBSET StackDirs : Cardinality(S) <= MaxStacks}
    /\ gitDiff \in UNION {ListsOf(DiffPaths, n) : n \in 0..MaxChanged}
    /\ baseRef \in Commits
    /\ baseRef = headRef => gitDiff = <<>>
    /\ workTree \in WorkTrees
    /\ items = MaxItems - Cardinality(stacks) - Len(gitDiff) - Len(workTree)
    /\ watch = EmptyMap
    /\ tfFiles = EmptyMap
    /\ missing = {}
    /\ changedFiles = <<>>
    /\ stackSet = EmptyMap
    /\ fileIdx = 0
    /\ stacksLeft = {}
    /\ curStack = <<>>
    /\ topFiles = <<>>
    /\ visited = {}
    /\ callStack = <<>>
    /\ lcpc = "call"
    /\ report = <<>>
    /\ examined = <<>>
    /\ repo = ""
    /\ returned = NotReturned
    /\ scanErr = <<>>

project == <<stacks, gitDiff, baseRef, workTree>>

\* errors.Kind of the errors of List and of ListChanged
errList == "listing stacks error"

errListChanged == "listing changed stacks error"

\* return nil, errors.E(kind, ...)
ReturnError(fn, kind) ==
    [fn |-> fn, report |-> FALSE, checks |-> "", err |-> kind]

\* return &Report{...}, nil; checks tells RepoChecks of checkRepoIsClean
\* from the empty RepoChecks
ReturnReport(fn, checks) ==
    [fn |-> fn, report |-> TRUE, checks |-> checks, err |-> ""]

\* what git.WithConfig, IsRepository, checkRepoIsClean and listChangedFiles
\* may find of the project root
GitOutcomes == {"repository", "not a repository", "git fails"}

\* lines 130-160: the repository checks and the list of changed files
ListChangedBegin ==
    /\ lcpc = "call"
    /\ UNCHANGED <<letVars, wantVars, loadVars>>
    /\ \E outcome \in GitOutcomes :
         /\ repo' = outcome
         /\ IF outcome = "repository"
            THEN /\ changedFiles' = listChangedFiles(<<>>)
                 /\ fileIdx' = 1
                 /\ lcpc' = "files"
                 /\ UNCHANGED returned
            ELSE /\ lcpc' = "error"
                 /\ returned' = ReturnError("ListChanged", errListChanged)
                 /\ UNCHANGED <<changedFiles, fileIdx>>
    /\ UNCHANGED <<project, scanErr, watch, tfFiles, missing, items, stackSet,
                   stacksLeft, curStack, topFiles, visited, callStack,
                   report, examined>>

\* lines 171-174: a changed path that starts with "." and is no trigger file
IgnoreDotFile ==
    /\ lcpc = "files"
    /\ UNCHANGED <<letVars, wantVars, loadVars>>
    /\ fileIdx <= Len(changedFiles)
    /\ HasDotPrefix(changedFiles[fileIdx])
    /\ ~TriggerStackPath(PrjAbsPath(changedFiles[fileIdx])).isTrigger
    /\ fileIdx' = fileIdx + 1
    /\ UNCHANGED <<project, scanErr, repo, returned, watch, tfFiles, missing, items, changedFiles,
                   stackSet, stacksLeft, curStack, topFiles, visited,
                   callStack, lcpc, report, examined>>

\* lines 190-191: m.root.Lookup finds the path and it is a stack;
\* IsStackAlways takes every path for a stack
IsStackAlways(dir) == TRUE

IsStack(dir) == dir \in stacks

\* lines 176-206: a changed trigger file; notExist is os.Stat failing with
\* fs.ErrNotExist, any other outcome of os.Stat goes on to the lookup
TriggerFile ==
    /\ lcpc = "files"
    /\ UNCHANGED <<letVars, wantVars, loadVars>>
    /\ fileIdx <= Len(changedFiles)
    /\ LET path == changedFiles[fileIdx]
           projpath == PrjAbsPath(path)
           triggeredStack == TriggerStackPath(projpath).dir
       IN  /\ TriggerStackPath(projpath).isTrigger
           /\ \E notExist \in BOOLEAN :
                /\ missing' = IF notExist THEN missing \cup {path} ELSE missing
                /\ IF notExist \/ ~IsStack(triggeredStack)
                   THEN UNCHANGED stackSet
                   ELSE stackSet' =
                          MapSet(stackSet, triggeredStack,
                                 Entry(triggeredStack, ReasonTrigger(projpath),
                                       FALSE))
    /\ fileIdx' = fileIdx + 1
    /\ UNCHANGED <<project, scanErr, repo, returned, watch, tfFiles, items, changedFiles, stacksLeft,
                   curStack, topFiles, visited, callStack, lcpc, report,
                   examined>>

\* lines 208-247: any other changed file
ChangedFile ==
    /\ lcpc = "files"
    /\ UNCHANGED <<letVars, wantVars, loadVars>>
    /\ fileIdx <= Len(changedFiles)
    /\ LET path == changedFiles[fileIdx]
           dirname == path.dir
           stackTree == LookupStack(dirname)
       IN  /\ ~HasDotPrefix(path)
           /\ ~TriggerStackPath(PrjAbsPath(path)).isTrigger
           /\ IF InStackSet(dirname) \/ ~stackTree.found
              THEN UNCHANGED stackSet
              ELSE stackSet' =
                     MapSet(stackSet, stackTree.dir,
                            Entry(stackTree.dir, ReasonChanges, FALSE))
    /\ fileIdx' = fileIdx + 1
    /\ UNCHANGED <<project, scanErr, repo, returned, watch, tfFiles, missing, items, changedFiles,
                   stacksLeft, curStack, topFiles, visited, callStack, lcpc,
                   report, examined>>

\* lines 247-258: the end of the loop over the changed files, and the list
\* of all stacks
AllStacks ==
    /\ lcpc = "files"
    /\ UNCHANGED <<letVars, wantVars, loadVars>>
    /\ fileIdx > Len(changedFiles)
    /\ stacksLeft' = stacks
    /\ lcpc' = "stacks"
    /\ UNCHANGED <<project, scanErr, repo, returned, watch, tfFiles, missing, items, changedFiles,
                   stackSet, fileIdx, curStack, topFiles, visited, callStack,
                   report, examined>>

\* os.ReadDir and tf.ParseModules of the .tf files of dir: what an earlier
\* read found, or else any files the project still has room for
ReadTfFiles(dir, room) ==
    IF dir \in DOMAIN tfFiles THEN {tfFiles[dir]}
    ELSE TfLists(MaxTfFiles, room)

\* the room the files read from dir take
RoomTaken(dir, files) == IF dir \in DOMAIN tfFiles THEN 0 ELSE TfItems(files)

\* line 261: a stack that is in stackSet already
StackInSet(stack) ==
    /\ lcpc = "stacks"
    /\ UNCHANGED <<letVars, wantVars, loadVars>>
    /\ stack \in stacksLeft
    /\ InStackSet(stack)
    /\ stacksLeft' = stacksLeft \ {stack}
    /\ UNCHANGED <<project, scanErr, repo, returned, watch, tfFiles, missing, items, changedFiles,
                   stackSet, fileIdx, curStack, topFiles, visited, callStack,
                   lcpc, report, examined>>

\* lines 269-284: a stack that watches a changed file
StackWatchChanged(stack) ==
    /\ lcpc = "stacks"
    /\ UNCHANGED <<letVars, wantVars, loadVars>>
    /\ stack \in stacksLeft
    /\ ~InStackSet(stack)
    /\ \E stackWatch \in WatchLists(items) :
         /\ watch' = MapSet(watch, stack, stackWatch)
         /\ items' = items - Len(stackWatch)
         /\ hasChangedWatchedFiles(stackWatch, changedFiles).ok
         /\ stackSet' =
              MapSet(stackSet, stack,
                     Entry(stack,
                           ReasonWatch(hasChangedWatchedFiles(
                                           stackWatch, changedFiles).watchFile),
                           TRUE))
    /\ stacksLeft' = stacksLeft \ {stack}
    /\ UNCHANGED <<project, scanErr, repo, returned, tfFiles, missing, changedFiles, fileIdx, curStack,
                   topFiles, visited, callStack, lcpc, report, examined>>

\* lines 269 and 290, 454-469: a stack that watches no changed file; the
\* files of its directory are read
StackFilesApply(stack) ==
    /\ lcpc = "stacks"
    /\ UNCHANGED <<letVars, wantVars, loadVars>>
    /\ stack \in stacksLeft
    /\ ~InStackSet(stack)
    /\ \E stackWatch \in WatchLists(items) :
         /\ watch' = MapSet(watch, stack, stackWatch)
         /\ ~hasChangedWatchedFiles(stackWatch, changedFiles).ok
         /\ \E files \in ReadTfFiles(stack, items - Len(stackWatch)) :
              /\ tfFiles' = MapSet(tfFiles, stack, files)
              /\ items' = items - Len(stackWatch) - RoomTaken(stack, files)
              /\ topFiles' = files
    /\ curStack' = stack
    /\ lcpc' = "scan"
    /\ UNCHANGED <<project, scanErr, repo, returned, missing, changedFiles, stackSet, fileIdx,
                   stacksLeft, visited, callStack, report, examined>>

\* the .tf files the running filesApply has still to hand to its callback,
\* the first of them with the modules its loop has still to check
CurFiles == IF callStack = <<>> THEN topFiles ELSE callStack[Len(callStack)].files

\* basedir of the next call of moduleChanged
Basedir == IF callStack = <<>> THEN curStack ELSE callStack[Len(callStack)].dir

\* the running loop over modules, moved on by one module
AfterModule(files) ==
    <<[Head(files) EXCEPT !.mods = Tail(@)]>> \o Tail(files)

\* topFiles and callStack with the files of the running filesApply replaced
SetCurFiles(files) ==
    IF callStack = <<>>
    THEN /\ topFiles' = files
         /\ UNCHANGED callStack
    ELSE /\ callStack' = [callStack EXCEPT ![Len(callStack)].files = files]
         /\ UNCHANGED topFiles

\* the module the loop over modules is at
HasModule == CurFiles # <<>> /\ ~Head(CurFiles).err /\ Head(CurFiles).mods # <<>>

CurModule == Head(Head(CurFiles).mods)

\* lines 476-479, 586-588: what the calls of moduleChanged in frames hand up
\* of the error err of a callback of the innermost of them: filesApply of
\* every call wraps what its callback returned; filesApplyErrSame hands the
\* error up as it is
filesApplyErrSame(frames, err) == err

RECURSIVE filesApplyErr(_, _)
filesApplyErr(frames, err) ==
    IF frames = <<>> THEN <<"applying operation to file">> \o err
    ELSE <<"applying operation to file">> \o filesApplyErr(Tail(frames), err)

\* lines 574-577: the error of a call of moduleChanged that fails before it
\* reads a directory, as the running calls hand it up to ListChanged
moduleChangedErr(err) ==
    IF callStack = <<>> THEN err
    ELSE filesApplyErr(SubSeq(callStack, 2, Len(callStack)), err)

\* lines 306-309, 555-558: tf.ParseModules fails; the error goes up through
\* every running moduleChanged to ListChanged, which returns it;
\* ParseModulesSkipped goes on with the next file in place of the error
ParseModulesSkipped ==
    /\ lcpc = "scan"
    /\ UNCHANGED <<letVars, wantVars, loadVars>>
    /\ CurFiles # <<>>
    /\ Head(CurFiles).err
    /\ SetCurFiles(Tail(CurFiles))
    /\ UNCHANGED <<project, scanErr, repo, returned, watch, tfFiles, missing, items,
                   changedFiles, stackSet, fileIdx, stacksLeft, curStack,
                   visited, lcpc, report, examined>>

ParseModulesFails ==
    /\ lcpc = "scan"
    /\ UNCHANGED <<letVars, wantVars, loadVars>>
    /\ CurFiles # <<>>
    /\ Head(CurFiles).err
    /\ lcpc' = "error"
    /\ scanErr' = IF callStack = <<>> THEN <<>>
                   ELSE filesApplyErr(SubSeq(callStack, 2, Len(callStack)),
                                      <<"parsing module",
                                        "tf.ParseModules error">>)
    /\ returned' = ReturnError("ListChanged", errListChanged)
    /\ callStack' = <<>>
    /\ visited' = {}
    /\ examined' = <<>>
    /\ UNCHANGED <<project, repo, watch, tfFiles, missing, items, changedFiles,
                   stackSet, fileIdx, stacksLeft, curStack, topFiles, report>>

\* lines 316-344, 563-583: the loop over the modules of a file ends
NextTfFile ==
    /\ lcpc = "scan"
    /\ UNCHANGED <<letVars, wantVars, loadVars>>
    /\ CurFiles # <<>>
    /\ ~Head(CurFiles).err
    /\ Head(CurFiles).mods = <<>>
    /\ SetCurFiles(Tail(CurFiles))
    /\ UNCHANGED <<project, scanErr, repo, returned, watch, tfFiles, missing, items, changedFiles,
                   stackSet, fileIdx, stacksLeft, curStack, visited, lcpc,
                   report, examined>>

\* lines 496-507: moduleChanged on a source it has visited, or on a source
\* that is not local
ModuleUnchanged ==
    /\ lcpc = "scan"
    /\ UNCHANGED <<letVars, wantVars, loadVars>>
    /\ HasModule
    /\ CurModule \in visited \/ ~IsLocal(CurModule)
    /\ SetCurFiles(AfterModule(CurFiles))
    /\ UNCHANGED <<project, scanErr, repo, returned, watch, tfFiles, missing, items, changedFiles,
                   stackSet, fileIdx, stacksLeft, curStack, visited, lcpc,
                   report, examined>>

\* lines 512-523: the source is not a directory; the error goes up to
\* ListChanged, which returns it
ModuleNotDir ==
    /\ lcpc = "scan"
    /\ UNCHANGED <<letVars, wantVars, loadVars>>
    /\ HasModule
    /\ CurModule \notin visited
    /\ IsLocal(CurModule)
    /\ ~IsDir(JoinSource(Basedir, CurModule))
    /\ lcpc' = "error"
    /\ scanErr' = moduleChangedErr(<<"\"source\" path is not a directory">>)
    /\ returned' = ReturnError("ListChanged", errListChanged)
    /\ callStack' = <<>>
    /\ visited' = {}
    /\ examined' = <<>>
    /\ UNCHANGED <<project, repo, watch, tfFiles, missing, items, changedFiles,
                   stackSet, fileIdx, stacksLeft, curStack, topFiles, report>>

\* line 539: visited[mod.Source] = true; visitedUnmarked leaves the mark out
visitedUnmarked(source) == visited

visitedWith(source) == visited \cup {source}

\* lines 528-533: git fails to list the changed files of the directory of
\* the source; the error goes up to ListChanged, which returns it
ModuleListFails ==
    /\ lcpc = "scan"
    /\ UNCHANGED <<letVars, wantVars, loadVars>>
    /\ HasModule
    /\ CurModule \notin visited
    /\ IsLocal(CurModule)
    /\ IsDir(JoinSource(Basedir, CurModule))
    /\ repo' = "git fails"
    /\ lcpc' = "error"
    /\ scanErr' = moduleChangedErr(<<"listing changes in the module", "git error">>)
    /\ returned' = ReturnError("ListChanged", errListChanged)
    /\ callStack' = <<>>
    /\ visited' = {}
    /\ examined' = <<>>
    /\ UNCHANGED <<project, watch, tfFiles, missing, items, changedFiles,
                   stackSet, fileIdx, stacksLeft, curStack, topFiles, report>>

\* the sources of the running calls of moduleChanged, the outermost first
CallSources == [i \in 1..Len(callStack) |-> callStack[i].source]

\* lines 528-537, then 574-590 in every calling moduleChanged and 327-342 in
\* ListChanged: the directory of the source has changed files
ModuleHasChanges ==
    /\ lcpc = "scan"
    /\ UNCHANGED <<letVars, wantVars, loadVars>>
    /\ HasModule
    /\ CurModule \notin visited
    /\ IsLocal(CurModule)
    /\ IsDir(JoinSource(Basedir, CurModule))
    /\ listChangedFiles(JoinSource(Basedir, CurModule).dir) # <<>>
    /\ LET why == CallSources \o <<CurModule>>
       IN  stackSet' =
             MapSet(stackSet, curStack,
                    Entry(curStack, ReasonModule(Head(why), Tail(why)), TRUE))
    /\ topFiles' = Tail(topFiles)
    /\ callStack' = <<>>
    /\ visited' = {}
    /\ examined' = <<>>
    /\ UNCHANGED <<project, scanErr, repo, returned, watch, tfFiles, missing, items, changedFiles,
                   fileIdx, stacksLeft, curStack, lcpc, report>>

\* lines 528-544, 454-469: the directory of the source has no changed
\* file; the source is visited and the files of the directory are read
ModuleFilesApply ==
    /\ lcpc = "scan"
    /\ UNCHANGED <<letVars, wantVars, loadVars>>
    /\ HasModule
    /\ CurModule \notin visited
    /\ IsLocal(CurModule)
    /\ IsDir(JoinSource(Basedir, CurModule))
    /\ LET modPath == JoinSource(Basedir, CurModule).dir
       IN  /\ listChangedFiles(modPath) = <<>>
           /\ \E files \in ReadTfFiles(modPath, items) :
                /\ tfFiles' = MapSet(tfFiles, modPath, files)
                /\ items' = items - RoomTaken(modPath, files)
                /\ IF callStack = <<>>
                   THEN /\ topFiles' = AfterModule(topFiles)
                        /\ callStack' =
                             <<[source |-> CurModule, dir |-> modPath,
                                files |-> files]>>
                   ELSE /\ UNCHANGED topFiles
                        /\ callStack' =
                             [callStack EXCEPT
                                ![Len(callStack)].files = AfterModule(@)]
                               \o <<[source |-> CurModule, dir |-> modPath,
                                     files |-> files]>>
    /\ visited' = visitedWith(CurModule)
    /\ examined' = examined \o <<CurModule>>
    /\ UNCHANGED <<project, scanErr, repo, returned, watch, missing, changedFiles, stackSet, fileIdx,
                   stacksLeft, curStack, lcpc, report>>

\* lines 586-590: moduleChanged has checked every file of the directory and
\* returns changed = false
ModuleReturn ==
    /\ lcpc = "scan"
    /\ UNCHANGED <<letVars, wantVars, loadVars>>
    /\ callStack # <<>>
    /\ CurFiles = <<>>
    /\ callStack' = SubSeq(callStack, 1, Len(callStack) - 1)
    /\ visited' = IF Len(callStack) = 1 THEN {} ELSE visited
    /\ examined' = IF Len(callStack) = 1 THEN <<>> ELSE examined
    /\ UNCHANGED <<project, scanErr, repo, returned, watch, tfFiles, missing, items, changedFiles,
                   stackSet, fileIdx, stacksLeft, curStack, topFiles, lcpc,
                   report>>

\* lines 347-350: filesApply of the stack returns no error
StackDone ==
    /\ lcpc = "scan"
    /\ UNCHANGED <<letVars, wantVars, loadVars>>
    /\ callStack = <<>>
    /\ topFiles = <<>>
    /\ stacksLeft' = stacksLeft \ {curStack}
    /\ lcpc' = "stacks"
    /\ UNCHANGED <<project, scanErr, repo, returned, watch, tfFiles, missing, items, changedFiles,
                   stackSet, fileIdx, curStack, topFiles, visited, callStack,
                   report, examined>>

\* the entries of stackSet
StackSetEntries == {stackSet[d] : d \in DOMAIN stackSet}

\* lines 354-366: the entries of stackSet in the order the map gives them,
\* sorted
ListChangedEnd ==
    /\ lcpc = "stacks"
    /\ UNCHANGED <<letVars, wantVars, loadVars>>
    /\ stacksLeft = {}
    /\ \E changedStacks \in ListsOf(StackSetEntries, Cardinality(StackSetEntries)) :
         report' = SortEntries(changedStacks)
    /\ lcpc' = "done"
    /\ returned' = ReturnReport("ListChanged", "checked")
    /\ UNCHANGED <<project, scanErr, repo, watch, tfFiles, missing, items, changedFiles,
                   stackSet, fileIdx, stacksLeft, curStack, topFiles, visited,
                   callStack, examined>>

\* lines 196-199, 238-241: config.NewStackFromHCL fails on the stack that a
\* changed file is about to add
NewStackFails ==
    /\ lcpc = "files"
    /\ UNCHANGED <<letVars, wantVars, loadVars>>
    /\ fileIdx <= Len(changedFiles)
    /\ LET path == changedFiles[fileIdx]
           trigger == TriggerStackPath(PrjAbsPath(path))
       IN  IF trigger.isTrigger
           THEN trigger.dir \in stacks
           ELSE /\ ~HasDotPrefix(path)
                /\ ~InStackSet(path.dir)
                /\ LookupStack(path.dir).found
    /\ lcpc' = "error"
    /\ returned' = ReturnError("ListChanged", errListChanged)
    /\ UNCHANGED <<project, scanErr, repo, watch, tfFiles, missing, items,
                   changedFiles, stackSet, fileIdx, stacksLeft, curStack,
                   topFiles, visited, callStack, report, examined>>

\* lines 251-254: List(m.root.Tree()) fails
AllStacksFails ==
    /\ lcpc = "files"
    /\ UNCHANGED <<letVars, wantVars, loadVars>>
    /\ fileIdx > Len(changedFiles)
    /\ lcpc' = "error"
    /\ returned' = ReturnError("ListChanged", errListChanged)
    /\ UNCHANGED <<project, scanErr, repo, watch, tfFiles, missing, items,
                   changedFiles, stackSet, fileIdx, stacksLeft, curStack,
                   topFiles, visited, callStack, report, examined>>

\* the entry List gives for a stack
ListEntry(dir) ==
    Entry(dir, [kind |-> "", file |-> NoFile, src |-> "", why |-> <<>>], FALSE)

\* List(m.root.Tree()): the entries of all stacks, sorted
ListEntries ==
    SortEntries(CHOOSE l \in ListsOf({ListEntry(d) : d \in stacks},
                                     Cardinality(stacks)) : TRUE)

\* the error of List(m.root.Tree()), which Manager.List returns as it is
errTree == "error of stack.List"

\* lines 86-89: List(m.root.Tree()) fails
ListFails ==
    /\ lcpc = "call"
    /\ UNCHANGED <<letVars, wantVars, loadVars>>
    /\ lcpc' = "list error"
    /\ returned' = ReturnError("List", errTree)
    /\ UNCHANGED <<project, scanErr, repo, watch, tfFiles, missing, items,
                   changedFiles, stackSet, fileIdx, stacksLeft, curStack,
                   topFiles, visited, callStack, report, examined>>

\* lines 98-103, 110-113: git.WithConfig or checkRepoIsClean fails
ListGitFails ==
    /\ lcpc = "call"
    /\ UNCHANGED <<letVars, wantVars, loadVars>>
    /\ repo' = "git fails"
    /\ lcpc' = "list error"
    /\ returned' = ReturnError("List", errList)
    /\ UNCHANGED <<project, scanErr, watch, tfFiles, missing, items, changedFiles,
                   stackSet, fileIdx, stacksLeft, curStack, topFiles,
                   visited, callStack, report, examined>>

\* lines 106-108: the project root is no git repository;
\* ListNotRepositoryFails returns the error that ListChanged returns
ListNotRepositoryFails ==
    /\ lcpc = "call"
    /\ UNCHANGED <<letVars, wantVars, loadVars>>
    /\ repo' = "not a repository"
    /\ lcpc' = "list error"
    /\ returned' = ReturnError("List", errList)
    /\ UNCHANGED <<project, scanErr, watch, tfFiles, missing, items, changedFiles,
                   stackSet, fileIdx, stacksLeft, curStack, topFiles,
                   visited, callStack, report, examined>>

ListNotRepository ==
    /\ lcpc = "call"
    /\ UNCHANGED <<letVars, wantVars, loadVars>>
    /\ repo' = "not a repository"
    /\ report' = ListEntries
    /\ lcpc' = "listed"
    /\ returned' = ReturnReport("List", "empty")
    /\ UNCHANGED <<project, scanErr, watch, tfFiles, missing, items, changedFiles,
                   stackSet, fileIdx, stacksLeft, curStack, topFiles,
                   visited, callStack, examined>>

\* lines 110-115: the project root is a git repository
ListRepository ==
    /\ lcpc = "call"
    /\ UNCHANGED <<letVars, wantVars, loadVars>>
    /\ repo' = "repository"
    /\ report' = ListEntries
    /\ lcpc' = "listed"
    /\ returned' = ReturnReport("List", "checked")
    /\ UNCHANGED <<project, scanErr, watch, tfFiles, missing, items, changedFiles,
                   stackSet, fileIdx, stacksLeft, curStack, topFiles,
                   visited, callStack, examined>>

ChangedNext ==
    \/ ListFails
    \/ ListGitFails
    \/ ListNotRepository
    \/ ListRepository
    \/ ListChangedBegin
    \/ IgnoreDotFile
    \/ TriggerFile
    \/ ChangedFile
    \/ NewStackFails
    \/ AllStacks
    \/ AllStacksFails
    \/ ModuleListFails
    \/ \E stack \in StackDirs : StackInSet(stack)
    \/ \E stack \in StackDirs : StackWatchChanged(stack)
    \/ \E stack \in StackDirs : StackFilesApply(stack)
    \/ ParseModulesFails
    \/ NextTfFile
    \/ ModuleUnchanged
    \/ ModuleNotDir
    \/ ModuleHasChanges
    \/ ModuleFilesApply
    \/ ModuleReturn
    \/ StackDone
    \/ ListChangedEnd

SpecChanged == ChangedInit /\ [][ChangedNext]_vars

\* ListChanged runs on until it returns
SpecChangedFair == SpecChanged /\ WF_vars(ChangedNext)

(***************************************************************************)
(* Properties of ListChanged and moduleChanged                             *)
(***************************************************************************)

\* ListChanged has returned a report and no error
ListChangedReturned == lcpc = "done"

\* the directories of the report, in its order
ReportDirs == [i \in 1..Len(report) |-> report[i].dir]

\* C6: for every successful ListChanged call, the directories of
\* Report.Stacks are strictly ascending in the order of their path strings,
\* so none occurs twice, whatever the order of the changed files, of the
\* stacks and of the map
C6_ReportAscending ==
    ListChangedReturned =>
        /\ {ReportDirs[i] : i \in 1..Len(report)} = DOMAIN stackSet
        /\ \A i \in 1..(Len(report) - 1) :
             StringLess(DirString(ReportDirs[i]), DirString(ReportDirs[i + 1]))

\* a report of two stacks, the changed file of the second listed first
C6_Witness ==
    /\ ListChangedReturned
    /\ Len(report) >= 2
    /\ Len(gitDiff) >= 2
    /\ IsBelow(gitDiff[1].dir, report[2].dir)
    /\ ~IsBelow(gitDiff[1].dir, report[1].dir)

\* the changed files, as a set
ChangedSet == {gitDiff[i] : i \in 1..Len(gitDiff)}

\* a changed file, no trigger file and its path not starting with ".",
\* whose closest stack is S
HasFileChange(S) ==
    \E f \in ChangedSet :
        /\ f.name # "trigger"
        /\ f.dir = <<>> \/ f.dir[1] # 0
        /\ LookupStack(f.dir) = [found |-> TRUE, dir |-> S]

\* a changed trigger file of S that exists
HasTrigger(S) ==
    \E f \in ChangedSet : f.name = "trigger" /\ f.dir = S /\ f \notin missing

\* a changed file that S watches
HasWatchChange(S) ==
    /\ S \in DOMAIN watch
    /\ \E i \in 1..Len(watch[S]) :
         [abs |-> FALSE, dir |-> watch[S][i].dir, name |-> watch[S][i].name]
           \in ChangedSet

\* the module sources of the .tf files of dir
SourcesIn(dir) ==
    IF dir \notin DOMAIN tfFiles THEN {}
    ELSE UNION {{tfFiles[dir][i].mods[j] : j \in 1..Len(tfFiles[dir][i].mods)}
                  : i \in 1..Len(tfFiles[dir])}

\* the directories the local sources of the .tf files of dir name
ModuleDirsOf(dir) ==
    {JoinSource(dir, source).dir :
        source \in {r \in SourcesIn(dir) \cap LocalSources :
                      JoinSource(dir, r).inProject
                        /\ JoinSource(dir, r).dir \in Dirs}}

RECURSIVE ModuleDirsWithin(_, _)
ModuleDirsWithin(dirs, n) ==
    IF n = 0 THEN dirs
    ELSE ModuleDirsWithin(dirs \cup UNION {ModuleDirsOf(d) : d \in dirs}, n - 1)

\* the module directories reachable from the .tf files of dir through a
\* chain of local sources
ReachableModuleDirs(dir) == ModuleDirsWithin(ModuleDirsOf(dir), Cardinality(Dirs))

\* a reachable module directory with changed files
HasModuleChange(dir) ==
    \E d \in ReachableModuleDirs(dir) : ChangedBelow(gitDiff, d) # <<>>

\* C7: a stack with no file change, no changed trigger file, no changed
\* watched file and no changed local module dependency is not in the
\* result of ListChanged
C7_UnchangedNotReported ==
    ListChangedReturned =>
        \A S \in stacks :
            ~(HasFileChange(S) \/ HasTrigger(S) \/ HasWatchChange(S)
                \/ HasModuleChange(S))
              => S \notin DOMAIN stackSet

\* a stack with a watch list and a local module is left out of the report
\* of a project with changed files
C7_Witness ==
    /\ ListChangedReturned
    /\ \E S \in stacks :
         /\ S \notin DOMAIN stackSet
         /\ S \in DOMAIN watch /\ watch[S] # <<>>
         /\ ModuleDirsOf(S) # {}
         /\ gitDiff # <<>>

C8_Replaces(S) ==
    \/ /\ lcpc = "files"
       /\ fileIdx <= Len(changedFiles)
       /\ \/ changedFiles[fileIdx].name = "trigger"
               /\ changedFiles[fileIdx].dir = S
          \/ changedFiles[fileIdx].name # "trigger"
               /\ changedFiles[fileIdx].dir # S
               /\ stackSet'[S].reason = ReasonChanges
    \/ /\ lcpc = "scan"
       /\ S = curStack
       /\ stackSet[S].reason.kind = "stack changed because module changed"
       /\ stackSet'[S].reason.kind = "stack changed because module changed"

C9_AsStated ==
    ListChangedReturned =>
        \A S \in stacks : HasModuleChange(S) => S \in DOMAIN stackSet

\* the module ListChanged has called moduleChanged on
TopSource == IF callStack = <<>> THEN CurModule ELSE callStack[1].source

\* moduleChanged runs
ModuleChangedRuns == lcpc = "scan" /\ (callStack # <<>> \/ HasModule)

\* the directories moduleChanged may come to from its module
WalkDirs ==
    IF TopSource \notin LocalSources THEN {}
    ELSE IF ~JoinSource(curStack, TopSource).inProject THEN {}
    ELSE ModuleDirsWithin({JoinSource(curStack, TopSource).dir}
                            \cap Dirs, Cardinality(Dirs))

\* the graph of the module: its module directories have no changed file,
\* their .tf files parse, and their local sources name directories
UnchangedGraph ==
    /\ TopSource \in LocalSources => IsDir(JoinSource(curStack, TopSource))
    /\ \A d \in WalkDirs :
         /\ ChangedBelow(gitDiff, d) = <<>>
         /\ d \in DOMAIN tfFiles =>
              /\ \A i \in 1..Len(tfFiles[d]) : ~tfFiles[d][i].err
              /\ \A source \in SourcesIn(d) \cap LocalSources :
                   IsDir(JoinSource(d, source))

\* C10: moduleChanged terminates for every graph of local module
\* references, cyclic ones included, and on a graph in which no reachable
\* module directory has changed files it returns changed = false and,
\* unless git fails, no error
C10_ModuleChangedTerminates ==
    /\ (callStack # <<>>) ~> (callStack = <<>>)
    /\ [][ModuleChangedRuns /\ UnchangedGraph =>
             /\ lcpc' # "error" \/ repo' = "git fails"
             /\ stackSet' = stackSet]_vars

\* moduleChanged is back at a module that refers to itself or to a module
\* that refers to it
C10_Witness ==
    /\ ModuleChangedRuns
    /\ UnchangedGraph
    /\ callStack # <<>>
    /\ HasModule
    /\ CurModule \in visited
    /\ \E i \in 1..Len(callStack) :
         callStack[i].dir = JoinSource(Basedir, CurModule).dir

\* the sources moduleChanged has listed the changed files of and scanned
\* the .tf files of, since ListChanged called it
ExaminedSources == {examined[i] : i \in 1..Len(examined)}

\* C11: within one top-level call of moduleChanged every local source is
\* examined (changed files listed, .tf files scanned) at most once; at a
\* second encounter of a source the call returns false at once: it reads no
\* directory, lists no changed files, fails with no error, calls nothing
\* and only moves its caller on to the next module
C11_ExaminedOnce ==
    /\ [](\A i \in 1..Len(examined) : \A j \in 1..Len(examined) :
             examined[i] = examined[j] => i = j)
    /\ [][lcpc = "scan" /\ HasModule /\ CurModule \in ExaminedSources =>
             /\ examined' = examined
             /\ tfFiles' = tfFiles
             /\ lcpc' = "scan"
             /\ stackSet' = stackSet
             /\ Len(callStack') = Len(callStack)
             /\ CurFiles' = AfterModule(CurFiles)]_vars

\* moduleChanged meets, in another directory, a source it has examined
C11_Witness ==
    /\ lcpc = "scan"
    /\ HasModule
    /\ CurModule \in ExaminedSources
    /\ \A i \in 1..Len(callStack) :
         callStack[i].source = CurModule =>
             callStack[i].dir # JoinSource(Basedir, CurModule).dir

\* the scan is at a .tf file that does not parse or at a local source that
\* is no directory
ScanFails ==
    /\ lcpc = "scan"
    /\ CurFiles # <<>>
    /\ \/ Head(CurFiles).err
       \/ /\ Head(CurFiles).mods # <<>>
          /\ CurModule \in LocalSources \ visited
          /\ LET modPath == JoinSource(Basedir, CurModule)
             IN  ~(modPath.inProject /\ modPath.dir \in Dirs)

\* C12: ListChanged returns no partial result: a git error, a stack
\* loading error, a .tf parse error and a module walk error each end the
\* call with a nil report and an error of kind errListChanged, and a report
\* is returned only with a nil error
C12_NoPartialResult ==
    /\ [](returned.fn = "ListChanged" =>
            /\ returned.report <=> returned.err = ""
            /\ returned.err # "" =>
                 returned.err = "listing changed stacks error" /\ report = <<>>
            /\ returned.report <=> lcpc = "done")
    /\ [](lcpc \in {"files", "stacks", "scan", "done"} => repo = "repository")
    /\ [][ScanFails =>
             /\ returned'.fn = "ListChanged"
             /\ ~returned'.report
             /\ returned'.err = "listing changed stacks error"]_vars

\* ListChanged has returned an error for a .tf file of the second stack it
\* scanned, with the first stack already in stackSet
C12_Witness ==
    /\ returned.fn = "ListChanged"
    /\ returned.err = "listing changed stacks error"
    /\ ~returned.report
    /\ report = <<>>
    /\ stackSet # EmptyMap
    /\ curStack \in DOMAIN tfFiles
    /\ \E i \in 1..Len(tfFiles[curStack]) : tfFiles[curStack][i].err

\* the directories of the stacks List has returned
ListedDirs == {report[i].dir : i \in 1..Len(report)}

\* C13: when the project root is no git repository, List returns every
\* stack once, empty checks and no error, and ListChanged returns no report
\* and an error of kind errListChanged, and has listed no changed file and
\* looked at no stack
C13_NotARepository ==
    repo = "not a repository" =>
        /\ returned.fn = "List" =>
             /\ returned = [fn |-> "List", report |-> TRUE,
                            checks |-> "empty", err |-> ""]
             /\ ListedDirs = stacks
             /\ Len(report) = Cardinality(stacks)
        /\ returned.fn # "List" =>
             /\ returned = [fn |-> "ListChanged", report |-> FALSE,
                            checks |-> "",
                            err |-> "listing changed stacks error"]
             /\ report = <<>>
             /\ changedFiles = <<>> /\ fileIdx = 0
             /\ stackSet = EmptyMap
             /\ watch = EmptyMap /\ tfFiles = EmptyMap

\* List has returned the two stacks of a project that is no git repository
\* and has changed files
C13_Witness ==
    /\ repo = "not a repository"
    /\ returned.fn = "List"
    /\ Len(report) = 2
    /\ gitDiff # <<>>

(***************************************************************************)
(* Manager.AddWantedOf.  The stacks of the project are numbered in the     *)
(* order of their directories.  The wants and wanted_by lists name stacks  *)
(* of the project; run.BuildDAG makes T an ancestor of S for every T in    *)
(* the wants of S and for every T that has S in its wanted_by.             *)
(***************************************************************************)

\* config.LoadAllStacks(m.root.Tree())
allstacks == 1..MaxWantStacks

\* the entries the wants and wanted_by lists may have: S names T
WantedEntries ==
    {e \in [list : {"wants", "wanted_by"}, stack : allstacks, names : allstacks] :
        e.stack # e.names}

\* the sets of at most n elements of S
RECURSIVE SubsetsUpTo(_, _)
SubsetsUpTo(S, n) ==
    IF n = 0 THEN {{}}
    ELSE SubsetsUpTo(S, n - 1)
           \cup {T \cup {x} : T \in SubsetsUpTo(S, n - 1), x \in S}

\* the list `list` of every stack, from a set of entries
ListsFrom(entries, list) ==
    [S \in allstacks |->
        {e.names : e \in {x \in entries : x.list = list /\ x.stack = S}}]

\* the sequences of at most n elements of S
RECURSIVE SeqsUpTo(_, _)
SeqsUpTo(S, n) ==
    IF n = 0 THEN {<<>>}
    ELSE SeqsUpTo(S, n - 1)
           \cup {<<x>> \o q : x \in S, q \in {r \in SeqsUpTo(S, n - 1) :
                                                 Len(r) = n - 1}}

WantedInit ==
    /\ LetsIdle
    /\ ChangedIdle
    /\ LoadIdle
    /\ \E entries \in SubsetsUpTo(WantedEntries, MaxWanted) :
         /\ wants = ListsFrom(entries, "wants")
         /\ wantedBy = ListsFrom(entries, "wanted_by")
    /\ scopeStacks \in SeqsUpTo(allstacks, MaxScope)
    /\ selectedStacks = <<>>
    /\ wantVisited = {}
    /\ wantPending = <<>>
    /\ wpc = "call"

\* wantsDag.AncestorsOf(id), after BuildDAG of lines 382-402 on all stacks
AncestorsOf(id) ==
    wants[id] \cup {T \in allstacks : id \in wantedBy[T]}

\* lines 422-429: addStack; addStackAgain leaves out the test of visited
addStackAgain(s) == selectedStacks \o <<s>>

addStack(s) ==
    IF s \in wantVisited THEN selectedStacks ELSE selectedStacks \o <<s>>

\* lines 376-379: config.LoadAllStacks fails
LoadAllStacksFails ==
    /\ wpc = "call"
    /\ UNCHANGED <<letVars, lcVars, loadVars>>
    /\ wpc' = "loading all stacks"
    /\ UNCHANGED <<wants, wantedBy, scopeStacks, selectedStacks, wantVisited,
                   wantPending>>

\* lines 382-402: run.BuildDAG fails for a stack
BuildDAGFails ==
    /\ wpc = "call"
    /\ UNCHANGED <<letVars, lcVars, loadVars>>
    /\ wpc' = "building wants DAG"
    /\ UNCHANGED <<wants, wantedBy, scopeStacks, selectedStacks, wantVisited,
                   wantPending>>

\* lines 375-434: the DAG of all stacks, and pending set to the stacks of
\* scopeStacks
AddWantedOfBegin ==
    /\ wpc = "call"
    /\ UNCHANGED <<letVars, lcVars, loadVars>>
    /\ wantPending' = scopeStacks
    /\ wantVisited' = {}
    /\ wpc' = "pending"
    /\ UNCHANGED <<wants, wantedBy, scopeStacks, selectedStacks>>

\* lines 436-450: one turn of the loop over pending
AddWantedOfPending ==
    /\ wpc = "pending"
    /\ UNCHANGED <<letVars, lcVars, loadVars>>
    /\ wantPending # <<>>
    /\ LET id == Head(wantPending)
       IN  /\ selectedStacks' = addStack(id)
           /\ wantVisited' = wantVisited \cup {id}
           /\ \E ancestors \in ListsOf(AncestorsOf(id),
                                      Cardinality(AncestorsOf(id))) :
                wantPending' = Tail(wantPending)
                             \o SelectSeq(ancestors,
                                          LAMBDA a : a \notin wantVisited')
    /\ UNCHANGED <<wants, wantedBy, scopeStacks, wpc>>

\* lines 436, 451: pending is empty; selectedStacks is returned
AddWantedOfReturn ==
    /\ wpc = "pending"
    /\ UNCHANGED <<letVars, lcVars, loadVars>>
    /\ wantPending = <<>>
    /\ wpc' = "done"
    /\ UNCHANGED <<wants, wantedBy, scopeStacks, selectedStacks, wantVisited,
                   wantPending>>

WantedNext ==
    \/ LoadAllStacksFails
    \/ BuildDAGFails
    \/ AddWantedOfBegin
    \/ AddWantedOfPending
    \/ AddWantedOfReturn

SpecWanted == WantedInit /\ [][WantedNext]_vars

\* AddWantedOf runs on: a step that can be taken is taken
SpecWantedFair == SpecWanted /\ WF_vars(WantedNext)

\* the stacks that S wants: its wants, and the stacks it is in the wanted_by of
WantedBy(S) == wants[S] \cup {T \in allstacks : S \in wantedBy[T]}

\* the stacks within n steps of the wanted relation from the set R
RECURSIVE WantedWithin(_, _)
WantedWithin(R, n) ==
    IF n = 0 THEN R
    ELSE WantedWithin(R, n - 1)
           \cup UNION {WantedBy(S) : S \in WantedWithin(R, n - 1)}

\* the stacks of the sequence q
Range(q) == {q[i] : i \in 1..Len(q)}

\* the seeds and all that is reachable from them
WantedClosure == WantedWithin(Range(scopeStacks), MaxWantStacks)

\* the steps of the wanted relation from the seeds to T
WantedDistance(T) ==
    CHOOSE n \in 0..MaxWantStacks :
        /\ T \in WantedWithin(Range(scopeStacks), n)
        /\ \A k \in 0..(n - 1) : T \notin WantedWithin(Range(scopeStacks), k)

\* the place of T in the sequence q
FirstIndex(q, T) == CHOOSE i \in 1..Len(q) : q[i] = T /\ \A k \in 1..(i - 1) : q[k] # T

\* q without the later occurrences of its elements
FirstOccurrences(q) ==
    SelectSeq([i \in 1..Len(q) |-> [at |-> i, s |-> q[i]]],
              LAMBDA e : FirstIndex(q, e.s) = e.at)

\* the place in selectedStacks of the first stack that wants T
FirstWanting(T) ==
    CHOOSE i \in 1..Len(selectedStacks) :
        /\ T \in WantedBy(selectedStacks[i])
        /\ \A k \in 1..(i - 1) : T \notin WantedBy(selectedStacks[k])

\* C14: when AddWantedOf returns, selectedStacks holds exactly the seeds and
\* the stacks reachable from them by the wanted relation, each once; the seeds
\* come first in the order given, and the others follow in the order of a
\* breadth-first visit: by the place of the first stack that wants them, and
\* so by their distance from the seeds.
C14_WantedClosure ==
    wpc = "done" =>
        /\ Range(selectedStacks) = WantedClosure
        /\ \A i, j \in 1..Len(selectedStacks) :
              selectedStacks[i] = selectedStacks[j] => i = j
        /\ LET seeds == FirstOccurrences(scopeStacks)
           IN  /\ Len(seeds) <= Len(selectedStacks)
               /\ \A i \in 1..Len(seeds) : selectedStacks[i] = seeds[i].s
        /\ \A i, j \in 1..Len(selectedStacks) :
              i < j =>
                /\ WantedDistance(selectedStacks[i])
                     <= WantedDistance(selectedStacks[j])
                /\ selectedStacks[i] \notin Range(scopeStacks)
                     => FirstWanting(selectedStacks[i])
                          <= FirstWanting(selectedStacks[j])

\* two seeds, one of them reached again from the other, and a stack two steps
\* away
C14_Witness ==
    /\ wpc = "done"
    /\ Len(scopeStacks) = 2
    /\ Len(selectedStacks) = 3
    /\ \E T \in Range(selectedStacks) : WantedDistance(T) = 2
    /\ \E S \in allstacks : wantedBy[S] # {}
    /\ \E S \in allstacks : wants[S] # {}

\* the stacks that dir is, or lies below
EnclosingStacks(dir) == {S \in stacks : IsBelow(dir, S)}

\* the closest of them
NearestStack(dir) ==
    CHOOSE S \in EnclosingStacks(dir) :
        \A T \in EnclosingStacks(dir) : Len(T) <= Len(S)

\* the loop over the changed files goes past a file that is no trigger file
\* and does not start with "."
PlainFileStep ==
    /\ lcpc = "files" /\ lcpc' = "files"
    /\ fileIdx <= Len(changedFiles) /\ fileIdx' = fileIdx + 1
    /\ ~HasDotPrefix(changedFiles[fileIdx])
    /\ ~TriggerStackPath(PrjAbsPath(changedFiles[fileIdx])).isTrigger

\* C15: a changed file that is no trigger file and does not start with "."
\* adds nothing when its directory is in no stack; otherwise the only stack
\* it adds is the closest stack enclosing its directory, and a stack it adds
\* or sets has the reason "stack has unmerged changes"; the entries of all
\* other stacks stay as they are.
C15_NearestStack ==
    [][PlainFileStep =>
         LET dir == changedFiles[fileIdx].dir
         IN  IF EnclosingStacks(dir) = {}
             THEN stackSet' = stackSet
             ELSE /\ DOMAIN stackSet' = DOMAIN stackSet \cup {NearestStack(dir)}
                  /\ \A S \in DOMAIN stackSet \ {NearestStack(dir)} :
                        stackSet'[S] = stackSet[S]
                  /\ \/ stackSet'[NearestStack(dir)]
                          = Entry(NearestStack(dir), ReasonChanges, FALSE)
                     \/ /\ NearestStack(dir) \in DOMAIN stackSet
                        /\ stackSet'[NearestStack(dir)]
                             = stackSet[NearestStack(dir)]]_vars

\* a file in a directory that is no stack, next to a sibling stack and below
\* the stack that holds both
C15_Witness ==
    /\ lcpc = "files"
    /\ fileIdx = 2
    /\ changedFiles[1].name = "x"
    /\ changedFiles[1].dir = <<1, 2>>
    /\ stacks = {<<1>>, <<1, 1>>}
    /\ DOMAIN stackSet = {<<1>>}
    /\ stackSet[<<1>>].reason = ReasonChanges

\* the places in the watch list w of the paths that are among the changed
\* files
WatchMatches(w) ==
    {i \in 1..Len(w) :
        \E k \in 1..Len(changedFiles) :
            /\ changedFiles[k].dir = w[i].dir
            /\ changedFiles[k].name = w[i].name}

\* the first of them
FirstWatchMatch(w) ==
    w[CHOOSE i \in WatchMatches(w) : \A k \in WatchMatches(w) : i <= k]

\* C16: a stack that no changed file and no trigger file has added, and that
\* watches a path among the changed files, is added with the reason of the
\* first such path of its watch list, and marked as changed, without a read of
\* its .tf files or a call of moduleChanged; ListChanged reports it so.
C16_WatchedFile ==
    /\ [][\A S \in stacks :
            (/\ lcpc = "stacks"
             /\ S \in stacksLeft /\ S \notin stacksLeft'
             /\ S \notin DOMAIN stackSet
             /\ WatchMatches(watch'[S]) # {})
            => /\ stackSet' = MapSet(stackSet, S,
                                     Entry(S, ReasonWatch(FirstWatchMatch(watch'[S])),
                                           TRUE))
               /\ lcpc' = "stacks"
               /\ tfFiles' = tfFiles /\ callStack' = callStack
               /\ examined' = examined /\ visited' = visited]_vars
    /\ [](lcpc = "done" =>
            \A S \in DOMAIN watch :
                WatchMatches(watch[S]) # {} =>
                    \E i \in 1..Len(report) :
                        report[i] = Entry(S, ReasonWatch(FirstWatchMatch(watch[S])),
                                          TRUE))

\* a stack that watches two changed paths, the first of them a dot path, is
\* reported with the first
C16_Witness ==
    /\ lcpc = "done"
    /\ \E S \in DOMAIN watch :
         /\ Len(watch[S]) = 2
         /\ WatchMatches(watch[S]) = {1, 2}
         /\ watch[S][1].dir = <<0>>
         /\ S \notin DOMAIN tfFiles
         /\ \E i \in 1..Len(report) :
              report[i] = Entry(S, ReasonWatch(watch[S][1]), TRUE)

\* the loop over the changed files is at a trigger file
AtTriggerFile ==
    /\ lcpc = "files"
    /\ fileIdx <= Len(changedFiles)
    /\ changedFiles[fileIdx].name = "trigger"

\* C17: a changed trigger file sets the entry of its target, with the reason
\* "stack has been triggered by" and its path, when os.Stat does not report
\* it as not existing and the target is a stack; otherwise it leaves the set
\* of changed stacks as it is.  No other entry is set, so no enclosing stack
\* gets the reason of a direct change, and the call fails at a trigger file
\* only when the file exists and its target is a stack.
C17_TriggerFile ==
    [][AtTriggerFile =>
         LET f == changedFiles[fileIdx]
             target == f.dir
         IN  /\ (lcpc' = "files" /\ fileIdx' = fileIdx + 1) =>
                  IF f \notin missing' /\ target \in stacks
                  THEN stackSet' =
                         MapSet(stackSet, target,
                                Entry(target,
                                      ReasonTrigger([f EXCEPT !.abs = TRUE]),
                                      FALSE))
                  ELSE stackSet' = stackSet
             /\ lcpc' = "error" => f \notin missing' /\ target \in stacks]_vars

\* a trigger file whose target is no stack but lies in one, and then one that
\* marks its stack
C17_Witness ==
    /\ lcpc = "files"
    /\ fileIdx = 3
    /\ stacks = {<<>>, <<2>>}
    /\ changedFiles[1] = [abs |-> FALSE, dir |-> <<1>>, name |-> "trigger"]
    /\ changedFiles[2] = [abs |-> FALSE, dir |-> <<2>>, name |-> "trigger"]
    /\ DOMAIN stackSet = {<<2>>}
    /\ stackSet[<<2>>].reason.kind = "stack has been triggered by"

(***************************************************************************)
(* lets.Load: loadExprs on a merged let block, then Eval on its result.    *)
(***************************************************************************)

\* error kind of a name that is both an attribute and a map label
ErrRedefined == "lets redefined"

\* the names of the attributes of the let blocks handed to Load
LoadNames == {"a", "b"}

\* a map sub-block: Labels[0], and whether mapexpr.NewMapExpr accepts it
MapBlocks == [label : Names, valid : BOOLEAN]

\* the expression mapexpr.NewMapExpr makes of a map sub-block
MapExpr == [kind |-> "expr", vars |-> <<>>, fails |-> FALSE]

LoadInit ==
    /\ ChangedIdle
    /\ WantedIdle
    /\ \E attrs \in ExprsOver(LoadNames, MaxLoadRefs) :
         \E blocks \in SeqsUpTo(MapBlocks, MaxBlocks) :
             letblock = [attrs |-> attrs, blocks |-> blocks]
    /\ loadErr = ""
    /\ letExprs = EmptyMap
    /\ ctxLet \in CtxLets
    /\ ctxLet0 = ctxLet
    /\ lets = EmptyMap
    /\ pendingExprs = EmptyMap
    /\ pendingExprsErrs = EmptyMap
    /\ rangeLeft = {}
    /\ amountEvaluated = 0
    /\ letpc = "load"
    /\ evalErr = EmptyMap
    /\ passes = <<>>
    /\ evaluated = {}

\* lines 219-235: the loop over letblock.Blocks from block i on, with the
\* expressions loaded so far
RECURSIVE loadBlocks(_, _, _)
loadBlocks(block, exprs, i) ==
    IF i > Len(block.blocks)
    THEN [err |-> "", exprs |-> exprs]
    ELSE IF block.blocks[i].label \in DOMAIN block.attrs
    THEN [err |-> ErrRedefined, exprs |-> EmptyMap]
    ELSE IF ~block.blocks[i].valid
    THEN [err |-> ErrEval, exprs |-> EmptyMap]
    ELSE loadBlocks(block, MapSet(exprs, block.blocks[i].label, MapExpr), i + 1)

\* the loop without the test of line 221
RECURSIVE loadBlocksNoConflict(_, _, _)
loadBlocksNoConflict(block, exprs, i) ==
    IF i > Len(block.blocks)
    THEN [err |-> "", exprs |-> exprs]
    ELSE IF ~block.blocks[i].valid
    THEN [err |-> ErrEval, exprs |-> EmptyMap]
    ELSE loadBlocksNoConflict(block,
                              MapSet(exprs, block.blocks[i].label, MapExpr),
                              i + 1)

\* lines 209-237: loadExprs; loadExprsNoConflict does not compare the labels
\* with the attributes
loadExprsNoConflict(block) == loadBlocksNoConflict(block, block.attrs, 1)

loadExprs(block) == loadBlocks(block, block.attrs, 1)

\* lines 62-65: loadExprs fails and Load returns its error
LoadFails ==
    /\ letpc = "load"
    /\ UNCHANGED <<lcVars, wantVars>>
    /\ loadExprs(letblock).err # ""
    /\ loadErr' = loadExprs(letblock).err
    /\ letpc' = "load error"
    /\ UNCHANGED <<letblock, letExprs, ctxLet, lets, pendingExprs,
                   pendingExprsErrs, rangeLeft, amountEvaluated, evalErr,
                   passes, evaluated, ctxLet0>>

\* lines 62-67: loadExprs gives the expressions and Load calls Eval on them
LoadEval ==
    /\ letpc = "load"
    /\ UNCHANGED <<lcVars, wantVars>>
    /\ loadExprs(letblock).err = ""
    /\ letExprs' = loadExprs(letblock).exprs
    /\ letpc' = "call"
    /\ UNCHANGED <<letblock, loadErr, ctxLet, lets, pendingExprs,
                   pendingExprsErrs, rangeLeft, amountEvaluated, evalErr,
                   passes, evaluated, ctxLet0>>

LoadNext ==
    \/ LoadFails
    \/ LoadEval
    \/ LetsNext

SpecLoad == LoadInit /\ [][LoadNext]_vars

\* the map sub-blocks of the let block whose label is an attribute's name
Conflicts ==
    {i \in 1..Len(letblock.blocks) :
        letblock.blocks[i].label \in DOMAIN letblock.attrs}

\* Load has returned an error without a call of Eval
LoadRejected ==
    /\ letpc = "load error"
    /\ loadErr # ""
    /\ evaluated = {}
    /\ lets = EmptyMap
    /\ ctxLet = ctxLet0

\* C18 as stated: a let block with a map label that is an attribute's name
\* is rejected with an error of kind "lets redefined", nothing is evaluated
\* and the context is as it was.
C18_AsStated ==
    (letpc # "load" /\ Conflicts # {}) =>
        LoadRejected /\ loadErr = ErrRedefined

\* C18: a let block with a map label that is an attribute's name is rejected
\* with an error, nothing is evaluated and the context is as it was; the
\* error has the kind "lets redefined" unless a map sub-block before the
\* first conflicting one is not accepted by mapexpr.NewMapExpr, and then it
\* has the kind "lets eval".
C18_Rejected ==
    (letpc # "load" /\ Conflicts # {}) =>
        /\ LoadRejected
        /\ LET first == CHOOSE i \in Conflicts : \A k \in Conflicts : i <= k
           IN  IF \E k \in 1..(first - 1) : ~letblock.blocks[k].valid
               THEN loadErr = ErrEval
               ELSE loadErr = ErrRedefined

\* the second map sub-block has the name of an attribute, the first is
\* accepted, and Load has returned where the context has a let namespace
C18_Witness ==
    /\ letpc = "load error"
    /\ loadErr = ErrRedefined
    /\ Conflicts = {2}
    /\ letblock.blocks[1].valid
    /\ ctxLet.has

\* C19 as stated: once a module of the stack under scan is found changed and
\* the stack is added, the scan of the stack stops: the next step goes on to
\* the next stack with the entry as it is, so that no later .tf file is
\* parsed, the reason is not replaced and the call does not fail there.
C19_AsStated ==
    [][(lcpc = "scan" /\ curStack \in DOMAIN stackSet) =>
          lcpc' = "stacks" /\ stackSet' = stackSet]_vars

\* what the last pass records for a remaining entry: the unknown namespaces
\* before the first reference to a pending let, or else the failure of
\* ctx.Eval
LastPassErrs(name) ==
    LET r == CheckVars(letExprs[name], DOMAIN pendingExprs)
    IN  IF r.errs # <<>> THEN r.errs
        ELSE IF r.outcome = "skip" THEN <<>>
        ELSE <<LetEvalErr(name)>>

\* C20: Eval returns an error exactly when an entry is still pending at the
\* end of the loop, and no entry that is `unset` ever is; the error has one
\* part for each remaining entry and for nothing else, every error in it has
\* the kind "lets eval", and the part of an entry is what the last pass
\* recorded for it or, when that is nothing, the error "undefined let" with
\* its name.
C20_EvalError ==
    letpc = "done" =>
        /\ evalErr # EmptyMap <=> DOMAIN pendingExprs # {}
        /\ DOMAIN evalErr = DOMAIN pendingExprs
        /\ \A name \in DOMAIN pendingExprs :
              /\ name \in DOMAIN letExprs /\ letExprs[name] # UnsetExpr
              /\ evalErr[name] # <<>>
              /\ \A i \in 1..Len(evalErr[name]) : evalErr[name][i].kind = ErrEval
              /\ evalErr[name] =
                   IF LastPassErrs(name) # <<>>
                   THEN LastPassErrs(name)
                   ELSE <<[kind |-> "lets eval", msg |-> "undefined let",
                           arg |-> name, at |-> 0]>>

\* Eval has bound one entry and returns an error for two: one with an
\* unknown namespace recorded, one with nothing recorded
C20_Witness ==
    /\ letpc = "done"
    /\ DOMAIN lets # {}
    /\ \E n, m \in DOMAIN evalErr :
         /\ evalErr[n][1].msg = "undefined let"
         /\ evalErr[m][1].msg = "unknown variable namespace"

\* C21 as stated: during Eval every binding is in the let namespace of the
\* context from the step that made it, and a name that is in the let
\* namespace, one that was there before the call included, stays there with
\* its value.
C21_AsStated ==
    /\ [](letpc \in {"loop", "range", "report", "done"} =>
            \A name \in DOMAIN lets :
                /\ name \in DOMAIN ctxLet.attrs
                /\ ctxLet.attrs[name] = lets[name])
    /\ [][\A name \in DOMAIN ctxLet.attrs :
            /\ name \in DOMAIN ctxLet'.attrs
            /\ ctxLet'.attrs[name] = ctxLet.attrs[name]]_vars

\* the step hands the entry name to ctx.Eval: it binds it, or records the
\* failure of its evaluation
HandsToCtxEval(name) ==
    /\ letpc = "range"
    /\ name \in rangeLeft /\ name \notin rangeLeft'
    /\ \/ name \in DOMAIN lets' \ DOMAIN lets
       \/ /\ name \in DOMAIN pendingExprsErrs'
          /\ pendingExprsErrs'[name]
               = <<[kind |-> "lets eval", msg |-> "let.", arg |-> name,
                    at |-> 0]>>

\* the names an expression reads as let.<name>
LetAttrRefs(expr) ==
    {expr.vars[i].name :
        i \in {j \in 1..Len(expr.vars) :
                  expr.vars[j].root = "let" /\ expr.vars[j].step = "attr"}}

\* C22: an entry is handed to ctx.Eval only when none of the names it reads
\* as let.<name> is pending, so a binding is made only when every such name
\* that the Exprs defines has its value in the let namespace.
C22_NoPendingDependency ==
    [][\A name \in Names :
          HandsToCtxEval(name) =>
              /\ LetAttrRefs(pendingExprs[name]) \cap DOMAIN pendingExprs = {}
              /\ name \in DOMAIN lets' =>
                    \A dep \in LetAttrRefs(pendingExprs[name]) :
                        dep \in DOMAIN letExprs /\ letExprs[dep].kind # "unset"
                          => dep \in DOMAIN lets /\ ctxLet.attrs[dep] = lets[dep]]_vars

\* an entry that reads another one was postponed in the first pass and bound
\* in a later one
C22_Witness ==
    /\ letpc = "done"
    /\ Len(passes) >= 3
    /\ \E name \in DOMAIN lets :
         \E dep \in LetAttrRefs(letExprs[name]) :
             dep # name /\ dep \in DOMAIN lets

\* the loop over the changed files is at a file that is no trigger file, in
\* a directory whose path has a segment starting with "."; first tells
\* whether that is the first segment
AtDotFile(first) ==
    /\ lcpc = "files"
    /\ fileIdx <= Len(changedFiles)
    /\ changedFiles[fileIdx].name # "trigger"
    /\ changedFiles[fileIdx].dir # <<>>
    /\ (changedFiles[fileIdx].dir[1] = 0) = first
    /\ \E i \in 1..Len(changedFiles[fileIdx].dir) :
          changedFiles[fileIdx].dir[i] = 0

\* the stacks that the directory of the file at fileIdx is, or lies below
DotFileStacks ==
    {S \in stacks : LET d == changedFiles[fileIdx].dir
                    IN  Len(S) <= Len(d) /\ SubSeq(d, 1, Len(S)) = S}

\* C23: a changed file that is no trigger file and whose path starts with
\* "." is passed over: the loop goes to the next file, the set of changed
\* stacks stays as it is, also when the root is a stack.  A changed file with
\* a "." segment only further down is processed: the closest stack enclosing
\* its directory gets the reason "stack has unmerged changes".
C23_DotFiles ==
    /\ [][AtDotFile(TRUE) =>
            /\ stackSet' = stackSet
            /\ lcpc' = "files" /\ fileIdx' = fileIdx + 1]_vars
    /\ [][(AtDotFile(FALSE) /\ lcpc' = "files" /\ DotFileStacks # {}) =>
            \E S \in DotFileStacks :
                /\ \A T \in DotFileStacks : Len(T) <= Len(S)
                /\ fileIdx' = fileIdx + 1
                /\ S \in DOMAIN stackSet'
                /\ stackSet'[S].reason.kind = "stack has unmerged changes"
                /\ \A T \in DOMAIN stackSet' \ {S} :
                      T \in DOMAIN stackSet /\ stackSet'[T] = stackSet[T]]_vars

\* the root is a stack; a file below a top-level dot directory was passed
\* over, and a file below a deeper dot directory has marked the stack that
\* encloses it
C23_Witness ==
    /\ lcpc = "files"
    /\ fileIdx = 3
    /\ stacks = {<<>>, <<1>>}
    /\ changedFiles[1].dir = <<0>> /\ changedFiles[1].name = "x"
    /\ changedFiles[2].dir = <<1, 0>> /\ changedFiles[2].name = "x"
    /\ DOMAIN stackSet = {<<1>>}

\* the loop over modules is at a module whose source is not a local path
AtRemoteModule ==
    /\ lcpc = "scan"
    /\ HasModule
    /\ CurModule \notin {"../2", "../../2/1"}

\* the sources a module reason names
ReasonSources(reason) ==
    {reason.src} \cup {reason.why[i] : i \in 1..Len(reason.why)}

\* C24: moduleChanged on a source that is not local only moves its caller on
\* to the next module: the source is not added to visited, no directory is
\* read, git is not asked, no stack is added and the call does not fail; so
\* no module reason ever names such a source.
C24_RemoteModule ==
    /\ [][AtRemoteModule =>
            /\ lcpc' = "scan"
            /\ visited' = visited /\ examined' = examined
            /\ tfFiles' = tfFiles /\ repo' = repo /\ returned' = returned
            /\ stackSet' = stackSet
            /\ Len(callStack') = Len(callStack)
            /\ CurFiles' = AfterModule(CurFiles)]_vars
    /\ [](\A S \in DOMAIN stackSet :
            stackSet[S].reason.kind = "stack changed because module changed"
              => ReasonSources(stackSet[S].reason)
                   \subseteq {"../2", "../../2/1"})

\* a stack whose only module is not local is left out of the report of a
\* project with changed files
C24_Witness ==
    /\ lcpc = "done"
    /\ gitDiff # <<>>
    /\ \E S \in stacks :
         /\ S \notin DOMAIN stackSet
         /\ S \in DOMAIN tfFiles
         /\ tfFiles[S] = <<[err |-> FALSE, mods |-> <<"git::example.com/mod">>]>>

\* the walk is at a local source, not visited, that names no directory
AtMissingModule ==
    /\ lcpc = "scan"
    /\ HasModule
    /\ CurModule \in {"../2", "../../2/1"} \ visited
    /\ LET modPath == JoinSource(Basedir, CurModule)
       IN  ~(modPath.inProject /\ modPath.dir \in Dirs)

\* ListChanged returns an error and no report, and visited is not extended
FailsWithoutReport ==
    /\ lcpc' = "error"
    /\ returned' = [fn |-> "ListChanged", report |-> FALSE, checks |-> "",
                    err |-> "listing changed stacks error"]
    /\ report' = <<>> /\ stackSet' = stackSet
    /\ visited' \subseteq visited

\* C25 as stated: the error of a local source that is no directory reaches
\* ListChanged as moduleChanged made it, whatever the depth of the walk, and
\* ListChanged returns an error and no report.
C25_AsStated ==
    [][AtMissingModule =>
         /\ FailsWithoutReport
         /\ scanErr' = <<"\"source\" path is not a directory">>]_vars

\* C25: the error of a local source that is no directory goes up through
\* every running call of moduleChanged, the filesApply of each of them
\* wrapping it once, and ListChanged returns an error and no report; the
\* source is not added to visited.
C25_NotADirectory ==
    [][AtMissingModule =>
         /\ FailsWithoutReport
         /\ Len(scanErr') = Len(callStack) + 1
         /\ scanErr'[Len(scanErr')] = "\"source\" path is not a directory"
         /\ \A i \in 1..Len(callStack) :
               scanErr'[i] = "applying operation to file"]_vars

\* a source met inside a walk named no directory
C25_Witness ==
    /\ lcpc = "error"
    /\ Len(scanErr) = 2
    /\ scanErr[2] = "\"source\" path is not a directory"

\* the stacks whose IsChanged flag is set
MarkedStacks == {S \in DOMAIN stackSet : stackSet[S].isChanged}

\* C26 as stated: in the report of a successful ListChanged every stack has
\* IsChanged set.
C26_AsStated ==
    lcpc = "done" => \A i \in 1..Len(report) : report[i].isChanged

\* C26: a flag that is set stays set, a step sets the flag of at most one
\* stack, and it is the stack the loop over all stacks is at; in the report
\* of a successful ListChanged the stacks reported for a watched file or for
\* a module have the flag set, and the stacks reported for a changed file or
\* for a trigger file have it as config.NewStackFromHCL made it, not set; no
\* stack outside the report has it set.
C26_IsChanged ==
    /\ [][/\ MarkedStacks \subseteq MarkedStacks'
          /\ Cardinality(MarkedStacks' \ MarkedStacks) <= 1
          /\ \A S \in MarkedStacks' \ MarkedStacks :
                lcpc \in {"stacks", "scan"} /\ S \in stacksLeft]_vars
    /\ [](lcpc = "done" =>
            /\ \A i \in 1..Len(report) :
                  report[i].isChanged <=>
                      report[i].reason.kind
                        \in {"stack changed because watched file changed",
                             "stack changed because module changed"}
            /\ MarkedStacks \subseteq {report[i].dir : i \in 1..Len(report)})

\* a report with a stack that a changed file added and a stack that a module
\* added
C26_Witness ==
    /\ lcpc = "done"
    /\ Len(report) = 2
    /\ \E i, j \in 1..2 :
         /\ report[i].reason.kind = "stack has unmerged changes"
         /\ ~report[i].isChanged
         /\ report[j].reason.kind = "stack changed because module changed"
         /\ report[j].isChanged

\* the positions of the references rooted at let whose first step is not an
\* attribute access
IndexRefs(expr) ==
    {k \in 1..Len(expr.vars) :
        expr.vars[k].root = "let" /\ expr.vars[k].step # "attr"}

\* the loop over the references gets to such a reference: no reference
\* before it reads a pending let
ReachesIndexRef(expr, pending) ==
    \E k \in IndexRefs(expr) :
       \A j \in 1..(k - 1) :
          ~(/\ expr.vars[j].root = "let"
            /\ expr.vars[j].step = "attr"
            /\ expr.vars[j].name \in pending)

\* Eval visits the entry in this step and goes on
PassesEntry(name) ==
    /\ letpc = "range"
    /\ name \in rangeLeft
    /\ name \notin rangeLeft'

\* C27 as stated: Eval never returns when an entry it has to evaluate has a
\* reference rooted at let whose first step is not an attribute access.
C27_AsStated ==
    letpc = "done" =>
        \A name \in DOMAIN letExprs :
           letExprs[name].kind # "unset" => IndexRefs(letExprs[name]) = {}

\* C27: Eval panics at the entry it visits exactly when, going through the
\* entry's references in order, it gets to a reference rooted at let whose
\* first step is not an attribute access before it gets to a let.<name> that
\* is pending; such an entry is never bound, and when Eval returns every entry
\* with such a reference is still pending behind a let.<name> that is
\* pending too.
C27_IndexPanics ==
    /\ [][/\ \A name \in Names :
                PassesEntry(name) =>
                    /\ letpc' # "panic"
                    /\ ~ReachesIndexRef(pendingExprs[name],
                                        DOMAIN pendingExprs)
          /\ letpc = "range" /\ letpc' = "panic" =>
                \E name \in rangeLeft :
                   ReachesIndexRef(pendingExprs[name],
                                   DOMAIN pendingExprs)]_vars
    /\ [](\A name \in DOMAIN lets : IndexRefs(letExprs[name]) = {})
    /\ [](letpc = "done" =>
            \A name \in DOMAIN letExprs :
               letExprs[name].kind # "unset" /\ IndexRefs(letExprs[name]) # {}
                 => /\ name \in DOMAIN pendingExprs
                    /\ ~ReachesIndexRef(letExprs[name], DOMAIN pendingExprs)
                    /\ name \in DOMAIN evalErr)

\* Eval panicked at an entry whose second reference is the index, after the
\* let the first one reads was bound
C27_Witness ==
    /\ letpc = "panic"
    /\ \E name \in DOMAIN pendingExprs :
         /\ Len(pendingExprs[name].vars) = 2
         /\ IndexRefs(pendingExprs[name]) = {2}
         /\ pendingExprs[name].vars[1].root = "let"
         /\ pendingExprs[name].vars[1].step = "attr"
         /\ pendingExprs[name].vars[1].name \in DOMAIN lets

\* S is on a cycle of the wanted relation
OnWantedCycle(S) ==
    \E T \in WantedBy(S) : S \in WantedWithin({T}, MaxWantStacks)

\* the places of S in selectedStacks
PlacesOf(S) == {i \in 1..Len(selectedStacks) : selectedStacks[i] = S}

\* C28: once the DAG of all stacks is built, AddWantedOf ends its loop over
\* pending and returns selectedStacks, never an error, whatever the wants and
\* wanted_by lists are, cycles included and with stacks that are in pending
\* more than once; every stack on a cycle that the seeds reach is in the
\* result exactly once.
C28_Terminates ==
    /\ (wpc = "pending") ~> (wpc = "done")
    /\ [][wpc = "pending" => wpc' \in {"pending", "done"}]_vars
    /\ [](wpc = "done" =>
            \A S \in WantedClosure :
               OnWantedCycle(S) => Cardinality(PlacesOf(S)) = 1)

\* AddWantedOf returned for two stacks that want each other, with the seed
\* given twice, so that the other stack was in pending twice before its
\* first visit
C28_Witness ==
    /\ wpc = "done"
    /\ Len(scopeStacks) = 2
    /\ scopeStacks[1] = scopeStacks[2]
    /\ \E S \in allstacks :
         /\ S # scopeStacks[1]
         /\ S \in WantedBy(scopeStacks[1])
         /\ scopeStacks[1] \in WantedBy(S)
         /\ selectedStacks = <<scopeStacks[1], S>>

\* the names in the order in which the run below visits them
NameOrder == <<"a", "b", "c">>

\* One pass of Eval (lines 93-153) that visits the pending entries in the
\* given order; st holds lets, the let namespace, the pending entries, the
\* count of bindings of the pass, and whether line 125 was reached.
RECURSIVE VisitInOrder(_, _)
VisitInOrder(order, st) ==
    IF order = <<>> \/ st.panic THEN st
    ELSE LET name == Head(order)
             r == CheckVars(st.pend[name], DOMAIN st.pend)
         IN  IF r.outcome = "panic" THEN [st EXCEPT !.panic = TRUE]
             ELSE IF r.outcome = "skip" \/ r.errs # <<>>
             THEN VisitInOrder(Tail(order), st)
             ELSE IF ~CtxEvalOk(st.pend[name], st.ns)
             THEN VisitInOrder(Tail(order), st)
             ELSE LET bound == MapSet(st.lets, name,
                                      CtxEvalValue(st.pend[name], st.ns))
                  IN  VisitInOrder(Tail(order),
                          [lets |-> bound,
                           ns |-> Attributes(bound),
                           pend |-> MapDelete(st.pend, name),
                           n |-> st.n + 1,
                           panic |-> FALSE])

\* the loop of lines 87-159 with every pass in the order of NameOrder
RECURSIVE RunInOrder(_)
RunInOrder(st) ==
    IF DOMAIN st.pend = {} THEN st
    ELSE LET after ==
               VisitInOrder(SelectSeq(NameOrder,
                                      LAMBDA x : x \in DOMAIN st.pend),
                            [st EXCEPT !.n = 0])
         IN  IF after.panic \/ after.n = 0 THEN after
             ELSE RunInOrder(after)

\* the run of Eval on letExprs and the context of the call that visits the
\* entries of every pass in the order of NameOrder
InOrderRun ==
    RunInOrder([lets |-> EmptyMap,
                ns |-> ctxLet0.attrs,
                pend |-> removeUnset(copyexprs(letExprs)),
                n |-> 0,
                panic |-> FALSE])

\* Eval returned what the run in the order of NameOrder returns
SameAsInOrder ==
    /\ ~InOrderRun.panic
    /\ lets = InOrderRun.lets
    /\ ctxLet.attrs = InOrderRun.ns
    /\ DOMAIN evalErr = DOMAIN InOrderRun.pend

\* C29 as stated: whatever the order in which the passes visit the entries,
\* Eval ends with the bindings, the let namespace and the failing names of
\* the run on the same Exprs and context that visits them in the order of
\* NameOrder.
C29_AsStated == letpc = "done" => SameAsInOrder

\* the same for a context that has no let namespace or an empty one
C29_EmptyNamespace ==
    letpc = "done" /\ DOMAIN ctxLet0.attrs = {} => SameAsInOrder

\* the reasons of the loop over the changed files
FilePhase == {"stack has unmerged changes", "stack has been triggered by"}

\* the reason of the watch lists
WatchPhase == {"stack changed because watched file changed"}

\* the stacks that the set holds with a reason of the given kinds
AddedIn(kinds) ==
    {S \in DOMAIN stackSet : stackSet[S].reason.kind \in kinds}

EvalReturnedError == letpc = "done" /\ DOMAIN evalErr # {}

\* C31 as stated: when Eval returns an error, the let namespace holds exactly
\* the names that were evaluated, with their values, and no name of the
\* error.
C31_AsStated ==
    EvalReturnedError =>
        /\ DOMAIN ctxLet.attrs = DOMAIN lets
        /\ \A name \in DOMAIN lets : ctxLet.attrs[name] = lets[name]
        /\ DOMAIN ctxLet.attrs \cap DOMAIN evalErr = {}

\* C31: a binding, once made, is kept to the end, also when Eval returns an
\* error; the names bound and the names of the error are disjoint.  When
\* Eval returns an error after at least one binding, the let namespace holds
\* exactly the names bound by the call, with their values, and no name of the
\* error; when it returns an error with nothing bound, the let namespace is
\* as it was before the call (empty when the context had none), names of the
\* error included.
C31_NoRollback ==
    /\ [][\A name \in DOMAIN lets :
             name \in DOMAIN lets' /\ lets'[name] = lets[name]]_vars
    /\ [](EvalReturnedError =>
            /\ DOMAIN lets \cap DOMAIN evalErr = {}
            /\ DOMAIN lets \cup DOMAIN evalErr
                 = {name \in DOMAIN letExprs : letExprs[name].kind # "unset"}
            /\ ctxLet.has
            /\ IF DOMAIN lets # {}
               THEN /\ DOMAIN ctxLet.attrs = DOMAIN lets
                    /\ \A name \in DOMAIN lets : ctxLet.attrs[name] = lets[name]
               ELSE ctxLet.attrs = ctxLet0.attrs)

\* Eval returned an error for one entry after it bound another one
C31_Witness ==
    /\ EvalReturnedError
    /\ DOMAIN lets # {}
    /\ ctxLet.attrs = lets
    /\ DOMAIN ctxLet0.attrs = {}

\* the outcome of a call of Eval that returned: the bindings, the let
\* namespace it leaves, and the names of the error
EvalOutcome ==
    [lets |-> lets, ns |-> ctxLet.attrs, failing |-> DOMAIN evalErr]

\* the outcome of the call on the same Exprs and an equal context that
\* visits the entries of every pass in the order of NameOrder
InOrderOutcome ==
    [lets |-> InOrderRun.lets, ns |-> InOrderRun.ns,
     failing |-> DOMAIN InOrderRun.pend]

\* C34 as stated: Eval leaves the Exprs it is called on as it was, unset
\* entries and evaluated entries included, and every call on the same Exprs
\* with an equal context returns the same outcome.
C34_AsStated ==
    /\ [][letExprs' = letExprs]_vars
    /\ [](letpc = "done" =>
            ~InOrderRun.panic /\ EvalOutcome = InOrderOutcome)

\* the receiver alone: no step of Eval changes letExprs, and when Eval
\* returns every entry is either bound, or in the error, or unset
C34_ReceiverKept ==
    /\ [][letExprs' = letExprs]_vars
    /\ [](letpc = "done" =>
            DOMAIN letExprs
              = DOMAIN lets \cup DOMAIN evalErr
                  \cup {name \in DOMAIN letExprs :
                           letExprs[name].kind = "unset"})

\* C33: when the base ref is the commit of HEAD, listChangedFiles gives
\* nothing for the root and for every module directory, whatever the work
\* tree holds: changedFiles is empty, no stack is ever put in the set, and a
\* ListChanged that returns a report returns an empty one.
C33_SameCommit ==
    (lcpc # "idle" /\ baseRef = headRef) =>
        /\ changedFiles = <<>>
        /\ DOMAIN stackSet = {}
        /\ report = <<>> \/ lcpc = "listed"
        /\ lcpc = "done" => returned.report /\ returned.err = ""

\* ListChanged returned with the base ref at the commit of HEAD, an untracked
\* file in a stack that has a watch list, and a local module whose directory
\* was read
C33_Witness ==
    /\ lcpc = "done"
    /\ baseRef = headRef
    /\ workTree # <<>>
    /\ report = <<>>
    /\ \E S \in stacks :
         /\ IsBelow(workTree[1].dir, S)
         /\ S \in DOMAIN watch /\ watch[S] # <<>>
    /\ \E d \in DOMAIN tfFiles : d \notin stacks

\* the stacks that the changed files, the stacks and the local modules of
\* the project make changed, whatever the order of the files, of the stacks
\* and of the modules
ChangedStacks ==
    {S \in stacks :
        HasFileChange(S) \/ HasTrigger(S) \/ HasWatchChange(S)
          \/ HasModuleChange(S)}

C32_FilesAndWatch ==
    ListChangedReturned =>
        /\ {report[i].dir : i \in 1..Len(report)} \subseteq ChangedStacks
        /\ \A S \in stacks :
              HasFileChange(S) \/ HasTrigger(S) \/ HasWatchChange(S)
                => \E i \in 1..Len(report) : report[i].dir = S

====
